---------------------------- MODULE Spec2Model ----------------------------
(***************************************************************************)
(* State-machine model of the strategy decision engine of free_trading:    *)
(*   - BaseStrategy (condition chain)      src/logical/strategy/base.py    *)
(*   - can_execute (live-execution guard)  src/logical/strategy/validators *)
(*   - RSIScaleInStrategy                  src/logical/strategy/rsi_scale_in*)
(* Python values that may be None or non-numeric are tagged records:       *)
(*   [k |-> "none"], [k |-> "num", v |-> n], [k |-> "str"].                *)
(***************************************************************************)
EXTENDS Integers, Sequences, FiniteSets, TLC

VARIABLES
    conditions,         \* BaseStrategy.conditions
    live_enabled,       \* BaseStrategy.live_enabled
    dry_run,            \* BaseStrategy.dry_run
    max_risk_fraction,  \* BaseStrategy.max_risk_fraction (tagged), in hundredths: Num(2) is 0.02
    max_notional,       \* BaseStrategy.max_notional (tagged)
    allowed_symbols,    \* BaseStrategy.allowed_symbols (tagged set)
    cfg,                \* RSIScaleInStrategy configuration fields set by __init__
    data,               \* the price window handed to run
    positions,          \* the positions snapshot handed to run
    called,             \* name of the last operation called ("" when none since the inputs changed)
    signal,             \* Signal returned by the last run
    invoked,            \* conditions invoked by the last BaseStrategy.run, in call order
    ce_signal,          \* signal argument of the last can_execute
    ce_context,         \* trading_context argument of the last can_execute
    ce_result,          \* (ok, reason) returned by the last can_execute
    rsi_series,         \* series argument of the last detect_rsi_cross
    cross_level,        \* level argument of the last detect_rsi_cross
    cross_direction,    \* direction argument of the last detect_rsi_cross
    cross_result,       \* value returned by the last detect_rsi_cross
    fe_func,            \* the function wrapped by function_to_class_adapter
    fe_data,            \* data_slice argument of the last find_entry_point
    fe_calls,           \* argument lists with which the wrapped function's body was entered
    fe_result,          \* what the last find_entry_point returned or raised
    settings,           \* STRATEGY_SETTINGS of the configuration: keys present and their values
    built               \* outcome of the last RSIScaleInStrategy(coin) on these settings

strategy_vars == <<conditions, live_enabled, dry_run, max_risk_fraction, max_notional,
                   allowed_symbols, cfg>>
env_vars      == <<data, positions>>
run_vars      == <<called, signal, invoked>>
ce_vars       == <<ce_signal, ce_context, ce_result>>
cross_vars    == <<rsi_series, cross_level, cross_direction, cross_result>>
adapter_vars  == <<fe_func, fe_data, fe_calls, fe_result>>
config_vars   == <<settings, built>>
vars == <<conditions, live_enabled, dry_run, max_risk_fraction, max_notional,
          allowed_symbols, cfg, data, positions, called, signal, invoked,
          ce_signal, ce_context, ce_result,
          rsi_series, cross_level, cross_direction, cross_result,
          fe_func, fe_data, fe_calls, fe_result, settings, built>>

-----------------------------------------------------------------------------
(* Python values *)

None   == [k |-> "none"]
Num(n) == [k |-> "num", v |-> n]
NonNumeric == [k |-> "str"]

IsNone(x) == x.k = "none"
IsNum(x)  == x.k = "num"

\* bool(x) of a tagged value: None and 0 are falsy, a non-empty string is truthy
Truthy(x) == CASE x.k = "none" -> FALSE
               [] x.k = "num"  -> x.v # 0
               [] OTHER        -> TRUE

\* mutant of PyOr: the default is never taken
PyOrKeepsFirst(a, b) == a

\* Python's `a or b`
PyOr(a, b) == IF Truthy(a) THEN a ELSE b

Last(s) == s[Len(s)]

RECURSIVE SumSeq(_)
SumSeq(s) == IF s = <<>> THEN 0 ELSE s[1] + SumSeq(Tail(s))

RECURSIVE Pow(_, _)
Pow(b, e) == IF e = 0 THEN 1 ELSE b * Pow(b, e - 1)

-----------------------------------------------------------------------------
(* Signal (src.trading_engine.core.signal is not among the sources: its     *)
(* three constructors are modelled from the data model of the specification)*)

SignalNoSignal(source) ==
    [source |-> source, signal_type |-> "NO_SIGNAL", direction |-> "None", price |-> None,
     volume |-> None, take_profits |-> <<>>, stop_losses |-> <<>>, metadata |-> [none |-> TRUE]]

SignalEntry(direction, entry_price, volume, tps, sls, source, metadata) ==
    [source |-> source, signal_type |-> "ENTRY", direction |-> direction, price |-> entry_price,
     volume |-> volume, take_profits |-> tps, stop_losses |-> sls, metadata |-> metadata]

SignalClose(source, metadata) ==
    [source |-> source, signal_type |-> "CLOSE", direction |-> "None", price |-> None,
     volume |-> None, take_profits |-> <<>>, stop_losses |-> <<>>, metadata |-> metadata]

-----------------------------------------------------------------------------
(* Input normalisation shared by both run methods *)

\* a DataFrame, or a matrix open/high/low/close + timestamp, becomes the window of
\* closes; anything else fails
\* mutant of Normalizable: whatever is handed over is taken for a window
NormalizableAnything(d) == TRUE

Normalizable(d) == d.kind \in {"df", "matrix"}
Closes(d) == d.close


-----------------------------------------------------------------------------
(* Condition chain: conditions.py and BaseStrategy *)

MinBarsCondition(n)    == [kind |-> "min_bars", arg |-> n]
CloseAboveMaCondition(p) == [kind |-> "close_above_ma", arg |-> p]
ExampleSetVolume(v)    == [kind |-> "set_volume", arg |-> v]
\* order-recording stub conditions: return True, return None (falsy), raise
StubTrue  == [kind |-> "stub_true", arg |-> 0]
StubNone  == [kind |-> "stub_none", arg |-> 0]
StubRaise == [kind |-> "stub_raise", arg |-> 0]
\* a stub that returns True after staging a direction, a take-profit and a stop-loss
StubStage == [kind |-> "stub_stage", arg |-> 0]

\* mutant of NewContext: the caller's list is emptied before it is handed over
NewContextEmptied(pos) ==
    [positions |-> <<>>, direction |-> "None", volume |-> None,
     take_profits |-> <<>>, stop_losses |-> <<>>, ma |-> None]

\* ctx = {'positions': positions} (+ 'trading_context'); the keys a condition may stage
\* are absent (None on ctx.get) until written. ctx['positions'] is the caller's list
\* itself, not a copy
NewContext(pos) ==
    [positions |-> pos, direction |-> "None", volume |-> None,
     take_profits |-> <<>>, stop_losses |-> <<>>, ma |-> None]

\* df['close'].rolling(p).mean().iloc[-1], as the sum of the last p closes over p
RollingMeanLast(closes, p) ==
    [k |-> "ratio", n |-> SumSeq(SubSeq(closes, Len(closes) - p + 1, Len(closes))), d |-> p]

\* One call cond(df, ctx): whether it raised, the value returned, the context after
CondCall(c, closes, ctx) ==
    CASE c.kind = "min_bars" ->
           [ctx |-> ctx, raised |-> FALSE, result |-> Num(IF Len(closes) >= c.arg THEN 1 ELSE 0)]
      [] c.kind = "close_above_ma" ->
           IF Len(closes) < c.arg
           THEN [ctx |-> ctx, raised |-> FALSE, result |-> Num(0)]
           ELSE LET ma == RollingMeanLast(closes, c.arg)
                IN [ctx |-> [ctx EXCEPT !.ma = ma],
                    raised |-> FALSE,
                    result |-> Num(IF Last(closes) * ma.d > ma.n THEN 1 ELSE 0)]
      [] c.kind = "set_volume" ->
           [ctx |-> [ctx EXCEPT !.volume = Num(c.arg)], raised |-> FALSE, result |-> Num(1)]
      [] c.kind = "stub_true" -> [ctx |-> ctx, raised |-> FALSE, result |-> Num(1)]
      [] c.kind = "stub_stage" ->
           [ctx |-> [ctx EXCEPT !.direction = "SHORT", !.take_profits = <<Num(4)>>,
                                !.stop_losses = <<Num(1)>>],
            raised |-> FALSE, result |-> Num(1)]
      [] c.kind = "stub_none" -> [ctx |-> ctx, raised |-> FALSE, result |-> None]
      [] OTHER                -> [ctx |-> ctx, raised |-> TRUE,  result |-> None]

\* mutants of ChainStops: the chain stops on an exception only / on a falsy value only
ChainStopsOnlyOnRaise(raised, result) == raised
ChainStopsOnlyOnFalsy(raised, result) == ~raised /\ ~Truthy(result)

\* the loop body's two returns: the except branch, and `if not bool(result)`
ChainStops(raised, result) == raised \/ ~Truthy(result)

\* for cond in self.conditions: ... ; evaluated from index i with the calls made so far
RECURSIVE EvalChain(_, _, _, _, _)
EvalChain(conds, closes, ctx, i, log) ==
    IF i > Len(conds)
    THEN [invoked |-> log, ctx |-> ctx, passed |-> TRUE]
    ELSE LET r == CondCall(conds[i], closes, ctx)
         IN IF ChainStops(r.raised, r.result)
            THEN [invoked |-> Append(log, conds[i]), ctx |-> r.ctx, passed |-> FALSE]
            ELSE EvalChain(conds, closes, r.ctx, i + 1, Append(log, conds[i]))

\* the flags snapshot stamped into metadata['strategy_live']
StrategyLive(live, dry, mrf, mn) ==
    [live_enabled |-> live, dry_run |-> dry, max_risk_fraction |-> mrf, max_notional |-> mn]

\* BaseStrategy.run: the signal returned, the conditions invoked, and the caller's
\* positions list as the conditions, which hold it through ctx, leave it
BaseRun(name, conds, d, pos, live, dry, mrf, mn) ==
    IF ~Normalizable(d)
    THEN [positions |-> pos, signal |-> SignalNoSignal(name), invoked |-> <<>>]
    ELSE LET closes == Closes(d)
             r == EvalChain(conds, closes, NewContext(pos), 1, <<>>)
         IN IF ~r.passed
            THEN [positions |-> r.ctx.positions, signal |-> SignalNoSignal(name),
                  invoked |-> r.invoked]
            ELSE IF closes = <<>>   \* df['close'].iloc[-1] raises IndexError
            THEN [positions |-> r.ctx.positions, signal |-> SignalNoSignal(name),
                  invoked |-> r.invoked]
            ELSE [positions |-> r.ctx.positions,
                  signal |-> SignalEntry(
                                IF r.ctx.direction = "None" THEN "LONG" ELSE r.ctx.direction,
                                Num(Last(closes)),
                                PyOr(r.ctx.volume, Num(0)),
                                r.ctx.take_profits, r.ctx.stop_losses, name,
                                [strategy_live |-> StrategyLive(live, dry, mrf, mn)]),
                  invoked |-> r.invoked]

-----------------------------------------------------------------------------
(* Bounds of the condition-chain model *)

MaxConds == 3          \* longest condition list
MaxChainBars == 3      \* longest window fed to BaseStrategy.run
ChainCloses == {1, 3}  \* close prices of the bars fed to BaseStrategy.run

ConditionPool ==
    {MinBarsCondition(2), CloseAboveMaCondition(2), ExampleSetVolume(5),
     StubTrue, StubNone, StubRaise}

\* the conditions of the chains whose ENTRY signal is examined: one that gates, two that
\* stage a volume (a real one and a falsy one), one that stages the order fields, one
\* that fails
EntryPool ==
    {MinBarsCondition(2), ExampleSetVolume(5), ExampleSetVolume(0), StubStage, StubNone}

BadData == [kind |-> "bad", close |-> <<>>]

-----------------------------------------------------------------------------
(* Call records: cleared whenever an input of the recorded call changes *)

NoRun   == called = "" /\ signal = SignalNoSignal("") /\ invoked = <<>>
NoRun_n == called' = "" /\ signal' = SignalNoSignal("") /\ invoked' = <<>>
NoCanExecute ==
    /\ ce_signal = SignalNoSignal("")
    /\ ce_context = None
    /\ ce_result = [ok |-> FALSE, reason |-> ""]
NoCross ==
    /\ rsi_series = <<>> /\ cross_level = 0 /\ cross_direction = "" /\ cross_result = FALSE

\* nothing wrapped, find_entry_point not called
NoFunction == [arity |-> "none", on_three |-> "return", on_data |-> "return"]
NoOutcome  == [raised |-> "", value |-> <<>>]
NoAdapter ==
    /\ fe_func = NoFunction /\ fe_data = "" /\ fe_calls = <<>> /\ fe_result = NoOutcome

\* no configuration under test, no construction attempted
NoSettings == [present |-> {}, value |-> <<>>]
NoBuilt    == [raised |-> "", done |-> FALSE, strategy |-> <<>>]
NoConfig == settings = NoSettings /\ built = NoBuilt

\* BaseStrategy.__init__
BaseInit(name) ==
    /\ conditions = <<>>
    /\ live_enabled = FALSE
    /\ dry_run = TRUE
    /\ max_risk_fraction = Num(2)
    /\ max_notional = None
    /\ allowed_symbols = None
    /\ cfg = [name |-> name]

-----------------------------------------------------------------------------
(* Operations of BaseStrategy *)

\* list.insert(index, x): a negative index counts from the end, out of range is clamped
PyInsert(s, index, x) ==
    LET j0 == IF index < 0 THEN index + Len(s) ELSE index
        j  == IF j0 < 0 THEN 0 ELSE IF j0 > Len(s) THEN Len(s) ELSE j0
    IN SubSeq(s, 1, j) \o <<x>> \o SubSeq(s, j + 1, Len(s))

\* mutant of PyRemove: asked to remove an absent element, it drops the last one
PyRemoveDropsLast(s, x) ==
    IF \E i \in 1..Len(s) : s[i] = x
    THEN LET i == CHOOSE i \in 1..Len(s) : s[i] = x /\ \A j \in 1..(i - 1) : s[j] # x
         IN SubSeq(s, 1, i - 1) \o SubSeq(s, i + 1, Len(s))
    ELSE SubSeq(s, 1, Len(s) - 1)

\* list.remove(x): drops the first occurrence; ValueError (caught) when absent
PyRemove(s, x) ==
    IF \E i \in 1..Len(s) : s[i] = x
    THEN LET i == CHOOSE i \in 1..Len(s) : s[i] = x /\ \A j \in 1..(i - 1) : s[j] # x
         IN SubSeq(s, 1, i - 1) \o SubSeq(s, i + 1, Len(s))
    ELSE s

AddCondition(c) ==
    /\ Len(conditions) < MaxConds
    /\ conditions' = Append(conditions, c)
    /\ NoRun_n
    /\ UNCHANGED <<live_enabled, dry_run, max_risk_fraction, max_notional, allowed_symbols,
                   cfg, env_vars, ce_vars, cross_vars, adapter_vars, config_vars>>

InsertCondition(index, c) ==
    /\ Len(conditions) < MaxConds
    /\ conditions' = PyInsert(conditions, index, c)
    /\ NoRun_n
    /\ UNCHANGED <<live_enabled, dry_run, max_risk_fraction, max_notional, allowed_symbols,
                   cfg, env_vars, ce_vars, cross_vars, adapter_vars, config_vars>>

RemoveCondition(c) ==
    /\ conditions' = PyRemove(conditions, c)
    /\ NoRun_n
    /\ UNCHANGED <<live_enabled, dry_run, max_risk_fraction, max_notional, allowed_symbols,
                   cfg, env_vars, ce_vars, cross_vars, adapter_vars, config_vars>>

ClearConditions ==
    /\ conditions' = <<>>
    /\ NoRun_n
    /\ UNCHANGED <<live_enabled, dry_run, max_risk_fraction, max_notional, allowed_symbols,
                   cfg, env_vars, ce_vars, cross_vars, adapter_vars, config_vars>>

\* the execution owner flips the live flags
SetLiveFlags(live, dry) ==
    /\ live_enabled' = live
    /\ dry_run' = dry
    /\ NoRun_n
    /\ UNCHANGED <<conditions, max_risk_fraction, max_notional, allowed_symbols,
                   cfg, env_vars, ce_vars, cross_vars, adapter_vars, config_vars>>

\* the execution owner sets or clears the absolute notional cap
SetMaxNotional(mn) ==
    /\ max_notional' = mn
    /\ NoRun_n
    /\ UNCHANGED <<conditions, live_enabled, dry_run, max_risk_fraction, allowed_symbols,
                   cfg, env_vars, ce_vars, cross_vars, adapter_vars, config_vars>>

\* a new bar arrives
PushBar(c, maxBars) ==
    /\ Normalizable(data)
    /\ Len(data.close) < maxBars
    /\ data' = [data EXCEPT !.close = Append(@, c)]
    /\ NoRun_n
    /\ UNCHANGED <<strategy_vars, positions, ce_vars, cross_vars, adapter_vars, config_vars>>

\* the caller hands over something that is neither a table nor a matrix
LoadBadData ==
    /\ data' = BadData
    /\ NoRun_n
    /\ UNCHANGED <<strategy_vars, positions, ce_vars, cross_vars, adapter_vars, config_vars>>

Run ==
    /\ LET r == BaseRun(cfg.name, conditions, data, positions,
                        live_enabled, dry_run, max_risk_fraction, max_notional)
       IN /\ signal' = r.signal
          /\ invoked' = r.invoked
          /\ positions' = r.positions
    /\ called' = "run"
    /\ UNCHANGED <<strategy_vars, data, ce_vars, cross_vars, adapter_vars, config_vars>>

InitChain ==
    /\ BaseInit("t1")
    /\ data \in {[kind |-> "df", close |-> <<>>], [kind |-> "matrix", close |-> <<>>]}
    /\ positions = <<>>
    /\ NoRun /\ NoCanExecute /\ NoCross /\ NoAdapter /\ NoConfig

NextChain ==
    \/ \E c \in ConditionPool : AddCondition(c)
    \/ \E c \in ConditionPool : \E i \in (0 - 1)..MaxConds : InsertCondition(i, c)
    \/ \E c \in ConditionPool : RemoveCondition(c)
    \/ ClearConditions
    \/ \E live \in BOOLEAN : \E dry \in BOOLEAN : SetLiveFlags(live, dry)
    \/ \E c \in ChainCloses : PushBar(c, MaxChainBars)
    \/ LoadBadData
    \/ Run

SpecChain == InitChain /\ [][NextChain]_vars

-----------------------------------------------------------------------------
(* Claims about the condition chain *)

\* what one condition does on the window, on its own
Outcome(c, closes) ==
    LET r == CondCall(c, closes, NewContext(<<>>))
    IN IF r.raised THEN "raise" ELSE IF Truthy(r.result) THEN "truthy" ELSE "falsy"

\* index of the first condition of the list that is falsy or raises on the window; 0 if none
FirstStop(conds, closes) ==
    LET S == {i \in 1..Len(conds) : Outcome(conds[i], closes) # "truthy"}
    IN IF S = {} THEN 0 ELSE CHOOSE i \in S : \A j \in S : i <= j

\* C1: on a normalised window, a run of a chain whose first falsy or raising condition
\* is the i-th invokes exactly conditions 1..i, each once and in list order, none after
\* it, and returns NO_SIGNAL
C1_StopsAtFirstFailure ==
    (called = "run" /\ Normalizable(data)) =>
        LET i == FirstStop(conditions, Closes(data))
        IN i > 0 => /\ invoked = SubSeq(conditions, 1, i)
                    /\ signal.signal_type = "NO_SIGNAL"

C1_Witness ==
    /\ called = "run" /\ Normalizable(data)
    /\ Len(conditions) = 3
    /\ FirstStop(conditions, Closes(data)) = 2
    /\ conditions[3] # conditions[1]
    /\ invoked = SubSeq(conditions, 1, 2)

\* C10: a run in which a condition raises returns NO_SIGNAL carrying the strategy name,
\* invokes nothing after the raising condition and leaves the condition list and the
\* live flags as they were
C10_FaultIsolated ==
    [][ (called' = "run" /\ Normalizable(data)
         /\ FirstStop(conditions, Closes(data)) > 0
         /\ Outcome(conditions[FirstStop(conditions, Closes(data))], Closes(data)) = "raise")
        => /\ signal' = SignalNoSignal(cfg.name)
           /\ invoked' = SubSeq(conditions, 1, FirstStop(conditions, Closes(data)))
           /\ UNCHANGED strategy_vars ]_vars

C10_Witness ==
    /\ called = "run" /\ Normalizable(data)
    /\ Len(conditions) = 3
    /\ FirstStop(conditions, Closes(data)) = 2
    /\ conditions[2] = StubRaise
    /\ conditions[3] = ExampleSetVolume(5)
    /\ signal = SignalNoSignal("t1")

\* Editing the chain: the four mutators and run, on chains of order-recording stubs and
\* one condition that looks at the window
EditPool == {MinBarsCondition(2), StubTrue, StubNone, StubRaise}

NextEdit ==
    \/ \E c \in EditPool : AddCondition(c)
    \/ \E c \in EditPool : \E i \in (0 - 1)..MaxConds : InsertCondition(i, c)
    \/ \E c \in EditPool : RemoveCondition(c)
    \/ ClearConditions
    \/ \E c \in ChainCloses : PushBar(c, MaxChainBars)
    \/ Run

SpecEdit == InitChain /\ [][NextEdit]_vars

Member(s, x) == \E i \in 1..Len(s) : s[i] = x

\* the list `new` is the list `old` with c put at position p (counted from 1)
PlacedAt(old, new, p, c) ==
    /\ p \in 1..Len(new)
    /\ new[p] = c
    /\ SubSeq(new, 1, p - 1) \o SubSeq(new, p + 1, Len(new)) = old

\* where an index lands in a list of n elements: as given from 0 to n, at the end
\* beyond n, counted back from the end (no further than the front) when negative
InsertPosition(n, index) ==
    IF index > n THEN n + 1
    ELSE IF index >= 0 THEN index + 1
    ELSE IF index + n >= 0 THEN index + n + 1
    ELSE 1

\* a step that removes a condition the chain does not hold leaves the list as it was,
\* one that adds appends, one that clears empties, and a run invokes the conditions in
\* list order: a prefix of the list, the whole of it when none stops the chain
RemoveAddClearRun ==
    /\ \A c \in ConditionPool :
          (RemoveCondition(c) /\ ~Member(conditions, c)) => conditions' = conditions
    /\ \A c \in ConditionPool :
          AddCondition(c) => PlacedAt(conditions, conditions', Len(conditions) + 1, c)
    /\ ClearConditions => Len(conditions') = 0
    /\ called' = "run" =>
          /\ invoked' = SubSeq(conditions', 1, Len(invoked'))
          /\ (Normalizable(data') /\ FirstStop(conditions', Closes(data')) = 0)
                 => invoked' = conditions'

\* C20 as stated: removing a condition that is not in the chain changes nothing,
\* add_condition appends, insert_condition(i, c) puts c at index i (position i + 1)
\* keeping the order of the others, clear_conditions empties the list, and run
\* evaluates in the order of the resulting list
C20_InsertAtGivenIndex ==
    [][ /\ RemoveAddClearRun
        /\ \A c \in ConditionPool : \A i \in (0 - 1)..MaxConds :
              InsertCondition(i, c) => PlacedAt(conditions, conditions', i + 1, c) ]_vars

\* C20, amended: as above, except that insert_condition(i, c) puts c at index i only
\* for 0 <= i <= len(conditions); a larger i puts it last, a negative i counts back
\* from the end; the order of the others is kept in every case
C20_InsertAtClampedIndex ==
    [][ /\ RemoveAddClearRun
        /\ \A c \in ConditionPool : \A i \in (0 - 1)..MaxConds :
              InsertCondition(i, c) =>
                  PlacedAt(conditions, conditions',
                           InsertPosition(Len(conditions), i), c) ]_vars

\* a run over a three-condition list whose last condition is the first to fail
C20_Witness ==
    /\ called = "run" /\ Normalizable(data)
    /\ Closes(data) = <<1, 3>>
    /\ conditions = <<StubTrue, MinBarsCondition(2), StubNone>>
    /\ invoked = conditions
    /\ signal.signal_type = "NO_SIGNAL"

\* Building the ENTRY signal: chains that stage order fields, under every setting of the
\* live-trading flags and the notional cap
NextEntry ==
    \/ \E c \in EntryPool : AddCondition(c)
    \/ ClearConditions
    \/ \E live \in BOOLEAN : \E dry \in BOOLEAN : SetLiveFlags(live, dry)
    \/ \E mn \in {None, Num(50)} : SetMaxNotional(mn)
    \/ \E c \in ChainCloses : PushBar(c, MaxChainBars)
    \/ Run

SpecEntry == InitChain /\ [][NextEntry]_vars

\* what the conditions of a passing chain leave staged: the volume of the last
\* set_volume condition (None without one), and whether a stub staged the order fields
StagedVolume(conds) ==
    LET S == {i \in 1..Len(conds) : conds[i].kind = "set_volume"}
    IN IF S = {} THEN None
       ELSE Num(conds[CHOOSE i \in S : \A j \in S : i >= j].arg)
StagedOrder(conds) == \E i \in 1..Len(conds) : conds[i] = StubStage

\* C15: when every condition passes, run returns an ENTRY priced at the last bar's
\* close, carrying the direction, volume, take-profits and stop-losses the chain staged,
\* with LONG, 0 and empty lists when nothing or a falsy value was staged, and
\* metadata['strategy_live'] holds the four live-trading settings as they are at the call
C15_EntryFromStagedContext ==
    (called = "run" /\ Normalizable(data) /\ Closes(data) # <<>>
        /\ FirstStop(conditions, Closes(data)) = 0)
    => /\ signal.signal_type = "ENTRY"
       /\ signal.source = cfg.name
       /\ signal.price = Num(Closes(data)[Len(Closes(data))])
       /\ signal.direction = (IF StagedOrder(conditions) THEN "SHORT" ELSE "LONG")
       /\ signal.volume = (IF StagedVolume(conditions) \in {None, Num(0)}
                              THEN Num(0) ELSE StagedVolume(conditions))
       /\ signal.take_profits = (IF StagedOrder(conditions) THEN <<Num(4)>> ELSE <<>>)
       /\ signal.stop_losses = (IF StagedOrder(conditions) THEN <<Num(1)>> ELSE <<>>)
       /\ signal.metadata.strategy_live.live_enabled = live_enabled
       /\ signal.metadata.strategy_live.dry_run = dry_run
       /\ signal.metadata.strategy_live.max_risk_fraction = max_risk_fraction
       /\ signal.metadata.strategy_live.max_notional = max_notional

\* a falsy volume staged after a real one, on a two-bar window with live trading on
C15_Witness ==
    /\ called = "run" /\ Normalizable(data)
    /\ Closes(data) = <<3, 1>>
    /\ conditions = <<ExampleSetVolume(5), ExampleSetVolume(0), MinBarsCondition(2)>>
    /\ live_enabled /\ ~dry_run /\ max_notional = Num(50)
    /\ signal.signal_type = "ENTRY" /\ signal.volume = Num(0) /\ signal.price = Num(1)

-----------------------------------------------------------------------------
(* validators.can_execute *)

Verdict(ok, reason, symbol) == [ok |-> ok, reason |-> reason, symbol |-> symbol]

NoContext == None
TradingContext(symbol, available_balance, balance) ==
    [k |-> "dict", symbol |-> symbol, available_balance |-> available_balance,
     balance |-> balance]

AllowedList(S) == [k |-> "list", s |-> S]

\* trading_context.get('available_balance') or trading_context.get('balance')
ContextBalance(ctx) == PyOr(ctx.available_balance, ctx.balance)

\* Decimal(str(x)) raises for a value that is not a number
DecimalFails(x) == ~IsNum(x)

\* mutant of ExceptBranch: the fault is swallowed and the signal accepted
ExceptBranchAccepts == Verdict(TRUE, "ok", "")

\* except Exception: return False, "validation_error"
ExceptBranch == Verdict(FALSE, "validation_error", "")

\* the try block: balance and risk checks, entered when a trading context is given
NotionalCheck(mn, mrf, sig, ctx) ==
    LET balance == ContextBalance(ctx)
    IN IF IsNone(balance) \/ IsNone(sig.price) \/ IsNone(sig.volume)
       THEN Verdict(TRUE, "ok", "")
       ELSE IF DecimalFails(sig.price) \/ DecimalFails(sig.volume)
       THEN ExceptBranch
       ELSE LET notional == sig.price.v * sig.volume.v
            IN IF ~IsNone(mn) /\ DecimalFails(mn)
               THEN ExceptBranch
               ELSE IF ~IsNone(mn) /\ notional > mn.v
               THEN Verdict(FALSE, "notional_exceeds_max_notional", "")
               ELSE IF DecimalFails(balance) \/ DecimalFails(mrf)
               THEN ExceptBranch
               ELSE IF notional * 100 > balance.v * mrf.v
               THEN Verdict(FALSE, "notional_exceeds_max_risk_fraction", "")
               ELSE Verdict(TRUE, "ok", "")

\* mutant of SymbolRejected: a context that names no symbol is tested against the list too
SymbolRejectedWithoutSymbol(allowed, meta_symbol) ==
    ~IsNone(allowed) /\ meta_symbol \notin allowed.s

\* allowed_symbols is not None and meta_symbol is not None and meta_symbol not in allowed_symbols
SymbolRejected(allowed, meta_symbol) ==
    ~IsNone(allowed) /\ meta_symbol # "None" /\ meta_symbol \notin allowed.s

\* the whitelist check and what follows it
AfterFlags(allowed, mn, mrf, sig, ctx) ==
    LET meta_symbol == IF IsNone(ctx) THEN "None" ELSE ctx.symbol
    IN IF SymbolRejected(allowed, meta_symbol)
       THEN Verdict(FALSE, "symbol_not_allowed", meta_symbol)
       ELSE IF IsNone(ctx)
       THEN Verdict(TRUE, "ok", "")
       ELSE NotionalCheck(mn, mrf, sig, ctx)

\* mutant of CanExecute: the dry-run check made before the live check
CanExecuteDryRunFirst(live, dry, allowed, mn, mrf, sig, ctx) ==
    IF dry THEN Verdict(FALSE, "dry_run_enabled", "")
    ELSE IF ~live THEN Verdict(FALSE, "strategy_live_disabled", "")
    ELSE AfterFlags(allowed, mn, mrf, sig, ctx)

CanExecute(live, dry, allowed, mn, mrf, sig, ctx) ==
    IF ~live THEN Verdict(FALSE, "strategy_live_disabled", "")
    ELSE IF dry THEN Verdict(FALSE, "dry_run_enabled", "")
    ELSE AfterFlags(allowed, mn, mrf, sig, ctx)

-----------------------------------------------------------------------------
(* The validator's inputs *)

Symbols == {"ETH/USDT", "BTC/USDT"}
AllowedChoices == {None, AllowedList({}), AllowedList({"ETH/USDT"})}
MaxNotionalChoices == {None, Num(1), Num(50), NonNumeric}
RiskFractionChoices == {Num(2), Num(20), NonNumeric}
AvailableBalanceChoices == {None, Num(0), Num(250), Num(1000), NonNumeric}
BalanceChoices == {None, Num(0), Num(1000)}
PriceChoices == {None, Num(50), NonNumeric}
VolumeChoices == {None, Num(1), Num(2), NonNumeric}

ContextChoices ==
    {NoContext} \cup
    {TradingContext(sy, ab, b) : sy \in Symbols \cup {"None"},
                                 ab \in AvailableBalanceChoices, b \in BalanceChoices}

\* a signal as run builds it, with the price and volume under test
CandidateSignal(price, volume) ==
    IF IsNone(price) /\ IsNone(volume)
    THEN SignalNoSignal("t4")
    ELSE SignalEntry("LONG", price, volume, <<>>, <<>>, "t4", [none |-> TRUE])

NoCanExecute_n ==
    /\ ce_signal' = SignalNoSignal("")
    /\ ce_context' = None
    /\ ce_result' = [ok |-> FALSE, reason |-> ""]

SetFlagsV(live, dry) ==
    /\ live_enabled' = live
    /\ dry_run' = dry
    /\ NoCanExecute_n
    /\ UNCHANGED <<conditions, max_risk_fraction, max_notional, allowed_symbols, cfg,
                   env_vars, run_vars, cross_vars, adapter_vars, config_vars>>

SetRiskLimits(mn, mrf) ==
    /\ max_notional' = mn
    /\ max_risk_fraction' = mrf
    /\ NoCanExecute_n
    /\ UNCHANGED <<conditions, live_enabled, dry_run, allowed_symbols, cfg,
                   env_vars, run_vars, cross_vars, adapter_vars, config_vars>>

SetAllowedSymbols(a) ==
    /\ allowed_symbols' = a
    /\ NoCanExecute_n
    /\ UNCHANGED <<conditions, live_enabled, dry_run, max_risk_fraction, max_notional, cfg,
                   env_vars, run_vars, cross_vars, adapter_vars, config_vars>>

CallCanExecute(sig, ctx) ==
    /\ ce_result.reason = ""      \* one recorded call at a time
    /\ ce_signal' = sig
    /\ ce_context' = ctx
    /\ ce_result' = CanExecute(live_enabled, dry_run, allowed_symbols, max_notional,
                               max_risk_fraction, sig, ctx)
    /\ UNCHANGED <<strategy_vars, env_vars, run_vars, cross_vars, adapter_vars, config_vars>>

InitValidator ==
    /\ BaseInit("t4")
    /\ data = [kind |-> "df", close |-> <<>>]
    /\ positions = <<>>
    /\ NoRun /\ NoCanExecute /\ NoCross /\ NoAdapter /\ NoConfig

NextValidator ==
    \/ \E live \in BOOLEAN : \E dry \in BOOLEAN : SetFlagsV(live, dry)
    \/ \E mn \in MaxNotionalChoices : \E mrf \in RiskFractionChoices : SetRiskLimits(mn, mrf)
    \/ \E a \in AllowedChoices : SetAllowedSymbols(a)
    \/ \E p \in PriceChoices : \E v \in VolumeChoices : \E ctx \in ContextChoices :
          CallCanExecute(CandidateSignal(p, v), ctx)

SpecValidator == InitValidator /\ [][NextValidator]_vars

-----------------------------------------------------------------------------
(* Claims about can_execute *)

CeCalled == ce_result.reason # ""

\* C2: with live_enabled false the verdict is (False, strategy_live_disabled), and with
\* live_enabled true and dry_run true it is (False, dry_run_enabled), whatever the
\* whitelist, the caps, the signal and the trading context are
C2_FlagsDecideFirst ==
    CeCalled =>
        /\ ~live_enabled => ce_result = Verdict(FALSE, "strategy_live_disabled", "")
        /\ (live_enabled /\ dry_run) => ce_result = Verdict(FALSE, "dry_run_enabled", "")

\* live disabled with dry_run on, a symbol outside the whitelist and a notional over the cap
C2_Witness ==
    /\ CeCalled /\ ~live_enabled /\ dry_run
    /\ allowed_symbols = AllowedList({"ETH/USDT"})
    /\ ~IsNone(ce_context) /\ ce_context.symbol = "BTC/USDT"
    /\ ce_context.available_balance = Num(1000)
    /\ max_notional = Num(1)
    /\ ce_signal.price = Num(50) /\ ce_signal.volume = Num(1)
    /\ ce_result.reason = "strategy_live_disabled"

\* the available balance a trading context supplies
SuppliesAvailableBalance(ctx) == ~IsNone(ctx) /\ IsNum(ctx.available_balance)

SymbolCheckPasses(ctx) ==
    IsNone(allowed_symbols) \/ IsNone(ctx) \/ ctx.symbol = "None"
        \/ ctx.symbol \in allowed_symbols.s

\* C3: live, not dry-run, symbol check passing, no max_notional: for every available
\* balance B >= 0 (B = 0 included) and signal with price and volume, the verdict is
\* notional_exceeds_max_risk_fraction when price*volume > B*fraction, and ok otherwise
C3_RiskFractionCap ==
    (/\ CeCalled /\ live_enabled /\ ~dry_run
     /\ SymbolCheckPasses(ce_context)
     /\ IsNone(max_notional) /\ IsNum(max_risk_fraction)
     /\ SuppliesAvailableBalance(ce_context)
     /\ IsNum(ce_signal.price) /\ IsNum(ce_signal.volume))
    => LET notional == ce_signal.price.v * ce_signal.volume.v
           B == ce_context.available_balance.v
       IN IF notional * 100 > B * max_risk_fraction.v
          THEN ce_result = Verdict(FALSE, "notional_exceeds_max_risk_fraction", "")
          ELSE ce_result = Verdict(TRUE, "ok", "")

\* C4: the checks apply in the order live, dry-run, whitelist, max_notional,
\* max_risk_fraction, the first failing one giving the reason: failing the whitelist
\* and a cap gives symbol_not_allowed, exceeding both caps gives
\* notional_exceeds_max_notional
C4_FirstFailingCheckWins ==
    (/\ CeCalled /\ live_enabled /\ ~dry_run
     /\ IsNum(ce_signal.price) /\ IsNum(ce_signal.volume)
     /\ SuppliesAvailableBalance(ce_context)
     /\ IsNum(max_notional) /\ IsNum(max_risk_fraction)
     /\ ce_signal.price.v * ce_signal.volume.v > max_notional.v
     /\ ce_signal.price.v * ce_signal.volume.v * 100
            > ce_context.available_balance.v * max_risk_fraction.v)
    => IF SymbolCheckPasses(ce_context)
       THEN ce_result = Verdict(FALSE, "notional_exceeds_max_notional", "")
       ELSE ce_result = Verdict(FALSE, "symbol_not_allowed", ce_context.symbol)

\* the notional computation is entered: a context with a balance, a price and a volume
NotionalEntered ==
    /\ ~IsNone(ce_context)
    /\ ~IsNone(PyOr(ce_context.available_balance, ce_context.balance))
    /\ ~IsNone(ce_signal.price) /\ ~IsNone(ce_signal.volume)

\* a conversion that the notional checks reach is handed something that is not a
\* number: the price or the volume; else the cap; else, when the cap does not reject,
\* the balance or the risk fraction
NotionalFault ==
    LET capPasses == \/ IsNone(max_notional)
                     \/ /\ IsNum(max_notional)
                        /\ ce_signal.price.v * ce_signal.volume.v <= max_notional.v
    IN /\ NotionalEntered
       /\ \/ ~IsNum(ce_signal.price)
          \/ ~IsNum(ce_signal.volume)
          \/ /\ IsNum(ce_signal.price) /\ IsNum(ce_signal.volume)
             /\ \/ ~IsNone(max_notional) /\ ~IsNum(max_notional)
                \/ /\ capPasses
                   /\ \/ ~IsNum(PyOr(ce_context.available_balance, ce_context.balance))
                      \/ ~IsNum(max_risk_fraction)

\* C17: with the live, dry-run and symbol checks passed, a price, volume, balance,
\* max_notional or max_risk_fraction that is not a number, met while the notional is
\* computed or compared, gives the verdict (False, validation_error)
C17_FaultIsValidationError ==
    (CeCalled /\ live_enabled /\ ~dry_run /\ SymbolCheckPasses(ce_context) /\ NotionalFault)
    => ce_result = Verdict(FALSE, "validation_error", "")

\* a numeric price and volume under the cap, and a risk fraction that is not a number
C17_Witness ==
    /\ CeCalled /\ live_enabled /\ ~dry_run /\ SymbolCheckPasses(ce_context)
    /\ ce_signal.price = Num(50) /\ ce_signal.volume = Num(1)
    /\ max_notional = Num(50) /\ max_risk_fraction = NonNumeric
    /\ ~IsNone(ce_context) /\ ce_context.available_balance = Num(1000)
    /\ ce_result.reason = "validation_error"

\* C18: with live_enabled true and dry_run false the verdict is
\* symbol_not_allowed:<symbol> exactly when a whitelist is configured and the trading
\* context names a symbol outside it; with no whitelist, no context or no symbol in
\* the context the whitelist never rejects and the verdict is that of the notional checks
C18_WhitelistRejectsExactly ==
    (CeCalled /\ live_enabled /\ ~dry_run) =>
        LET named == ~IsNone(ce_context) /\ ce_context.symbol # "None"
            outside == ~IsNone(allowed_symbols) /\ named
                          /\ ce_context.symbol \notin allowed_symbols.s
        IN /\ (ce_result.reason = "symbol_not_allowed") <=> outside
           /\ outside => ce_result = Verdict(FALSE, "symbol_not_allowed", ce_context.symbol)
           /\ (IsNone(allowed_symbols) \/ ~named) =>
                  /\ ce_result.reason \in {"ok", "notional_exceeds_max_notional",
                                           "notional_exceeds_max_risk_fraction",
                                           "validation_error"}
                  /\ IsNone(ce_context) => ce_result = Verdict(TRUE, "ok", "")
                  /\ ~IsNone(ce_context) =>
                         ce_result = NotionalCheck(max_notional, max_risk_fraction,
                                                   ce_signal, ce_context)

\* a symbol outside the configured whitelist is rejected although the notional is fine
C18_Witness ==
    /\ CeCalled /\ live_enabled /\ ~dry_run
    /\ allowed_symbols = AllowedList({"ETH/USDT"})
    /\ ~IsNone(ce_context) /\ ce_context.symbol = "BTC/USDT"
    /\ ce_context.available_balance = Num(1000)
    /\ IsNone(max_notional) /\ max_risk_fraction = Num(20)
    /\ ce_signal.price = Num(50) /\ ce_signal.volume = Num(1)
    /\ ce_result = Verdict(FALSE, "symbol_not_allowed", "BTC/USDT")

\* a whitelist is configured, the context names no symbol, and the cap rejects
C18_WitnessNoSymbol ==
    /\ CeCalled /\ live_enabled /\ ~dry_run
    /\ allowed_symbols = AllowedList({})
    /\ ~IsNone(ce_context) /\ ce_context.symbol = "None"
    /\ ce_result.reason = "notional_exceeds_max_notional"

\* a whitelist is configured and no context is given
C18_WitnessNoContext ==
    /\ CeCalled /\ live_enabled /\ ~dry_run
    /\ allowed_symbols = AllowedList({"ETH/USDT"})
    /\ IsNone(ce_context)
    /\ ce_result = Verdict(TRUE, "ok", "")

\* the signal lacks a price or a volume
LacksPriceOrVolume(sig) == IsNone(sig.price) \/ IsNone(sig.volume)

\* neither key of the context holds a value other than zero
BothZeroOrNone(ctx) == ~Truthy(ctx.available_balance) /\ ~Truthy(ctx.balance)

\* `available_balance or balance` is None: no balance key, and available_balance
\* absent or zero
NoBalanceSupplied(ctx) == ~Truthy(ctx.available_balance) /\ IsNone(ctx.balance)

C29_ZeroBalanceEnforced ==
    /\ CeCalled /\ ~IsNone(ce_context)
    /\ IsNone(ce_context.available_balance) /\ ce_context.balance = Num(0)
    /\ ce_result.reason = "notional_exceeds_max_notional"

-----------------------------------------------------------------------------
(* RSIScaleInStrategy: oscillator and crossing detector *)

\* An oscillator sample is the exact ratio n/d; d = 0 is NaN (0/0)
Sample(v) == [n |-> v, d |-> 1]
NaN == [n |-> 0, d |-> 0]
IsNaN(x) == x.d = 0

\* comparisons of a sample with a level; every comparison with NaN is false
\* mutant of Gt: an undefined sample counts as above every level
GtUndefinedAbove(x, level) == x.d = 0 \/ x.n > level * x.d

Gt(x, level) == x.d > 0 /\ x.n >  level * x.d
Ge(x, level) == x.d > 0 /\ x.n >= level * x.d
Lt(x, level) == x.d > 0 /\ x.n <  level * x.d
Le(x, level) == x.d > 0 /\ x.n <= level * x.d

\* close.diff() split into gains and losses; the first difference is NaN and becomes 0
Gain(closes, i) == IF i > 1 /\ closes[i] > closes[i - 1] THEN closes[i] - closes[i - 1] ELSE 0
Loss(closes, i) == IF i > 1 /\ closes[i] < closes[i - 1] THEN closes[i - 1] - closes[i] ELSE 0

\* ewm(span=period, adjust=False).mean() at bar i, scaled by (period+1)^(i-1):
\* y[1] = x[1], y[i] = ((period-1)*y[i-1] + 2*x[i]) / (period+1)
RECURSIVE EwmGain(_, _, _)
EwmGain(closes, period, i) ==
    IF i = 1 THEN Gain(closes, 1)
    ELSE (period - 1) * EwmGain(closes, period, i - 1)
            + 2 * Pow(period + 1, i - 2) * Gain(closes, i)

RECURSIVE EwmLoss(_, _, _)
EwmLoss(closes, period, i) ==
    IF i = 1 THEN Loss(closes, 1)
    ELSE (period - 1) * EwmLoss(closes, period, i - 1)
            + 2 * Pow(period + 1, i - 2) * Loss(closes, i)

\* the bars up to i at which the close changed
Moves(closes, i) == {j \in 2..i : closes[j] # closes[j - 1]}

\* rsi = 100 - 100/(1 + avg_gains/avg_losses) = 100*G/(G+L); 0/0 is NaN. Both averages
\* are 0 until the first change of the close, and every bar after the last change
\* multiplies both by the same factor, so the ratio at bar i is the one the same
\* smoothing gives on the bars from just before the first change to the last change
CalculateRsi(closes, period) ==
    [i \in 1..Len(closes) |->
        IF Moves(closes, i) = {} THEN NaN
        ELSE LET first == CHOOSE j \in Moves(closes, i) : \A k \in Moves(closes, i) : j <= k
                 last  == CHOOSE j \in Moves(closes, i) : \A k \in Moves(closes, i) : j >= k
                 w == SubSeq(closes, first - 1, last)
                 G == EwmGain(w, period, Len(w))
                 L == EwmLoss(w, period, Len(w))
             IN [n |-> 100 * G, d |-> G + L]]

\* mutant of DetectRsiCross: the current sample alone decides, whatever came before
DetectRsiCrossLevelTriggered(rsi, level, direction) ==
    IF Len(rsi) < 2 THEN FALSE
    ELSE IF direction = "down" THEN Le(rsi[Len(rsi)], level)
    ELSE IF direction = "up" THEN Ge(rsi[Len(rsi)], level)
    ELSE FALSE

\* mutant of DetectRsiCross: a previous sample on the level counts as beyond it
DetectRsiCrossFromLevel(rsi, level, direction) ==
    IF Len(rsi) < 2 THEN FALSE
    ELSE IF direction = "down" THEN Ge(rsi[Len(rsi) - 1], level) /\ Le(rsi[Len(rsi)], level)
    ELSE IF direction = "up" THEN Le(rsi[Len(rsi) - 1], level) /\ Ge(rsi[Len(rsi)], level)
    ELSE FALSE

\* mutant of DetectRsiCross: touching the level does not count as crossed
DetectRsiCrossStrict(rsi, level, direction) ==
    IF Len(rsi) < 2 THEN FALSE
    ELSE IF direction = "down" THEN Gt(rsi[Len(rsi) - 1], level) /\ Lt(rsi[Len(rsi)], level)
    ELSE IF direction = "up" THEN Lt(rsi[Len(rsi) - 1], level) /\ Gt(rsi[Len(rsi)], level)
    ELSE FALSE

DetectRsiCross(rsi, level, direction) ==
    IF Len(rsi) < 2 THEN FALSE
    ELSE LET current_rsi  == rsi[Len(rsi)]
             previous_rsi == rsi[Len(rsi) - 1]
         IN IF direction = "down" THEN Gt(previous_rsi, level) /\ Le(current_rsi, level)
            ELSE IF direction = "up" THEN Lt(previous_rsi, level) /\ Ge(current_rsi, level)
            ELSE FALSE

-----------------------------------------------------------------------------
(* The crossing detector on its own *)

MaxSeriesLen == 3      \* longest series built sample by sample
SampleValues == {Sample(34), Sample(35), Sample(36), Sample(64), Sample(65), Sample(66), NaN}
CrossLevels == {35, 65}
CrossDirections == {"down", "up", "sideways"}

\* the series of test_cross_detection
FixtureSeries ==
    {<<Sample(40), Sample(38), Sample(36), Sample(34)>>,
     <<Sample(60), Sample(62), Sample(64), Sample(66)>>,
     <<Sample(40), Sample(41), Sample(42), Sample(43), Sample(44)>>}

NoCross_n ==
    /\ cross_level' = 0 /\ cross_direction' = "" /\ cross_result' = FALSE

AppendSample(x) ==
    /\ Len(rsi_series) < MaxSeriesLen
    /\ rsi_series' = Append(rsi_series, x)
    /\ NoCross_n
    /\ UNCHANGED <<strategy_vars, env_vars, run_vars, ce_vars, adapter_vars, config_vars>>

LoadFixture(s) ==
    /\ rsi_series' = s
    /\ NoCross_n
    /\ UNCHANGED <<strategy_vars, env_vars, run_vars, ce_vars, adapter_vars, config_vars>>

CallDetectRsiCross(level, direction) ==
    /\ cross_level' = level
    /\ cross_direction' = direction
    /\ cross_result' = DetectRsiCross(rsi_series, level, direction)
    /\ UNCHANGED <<rsi_series, strategy_vars, env_vars, run_vars, ce_vars, adapter_vars, config_vars>>

InitCross ==
    /\ BaseInit("rsi_scale_in")
    /\ data = [kind |-> "df", close |-> <<>>]
    /\ positions = <<>>
    /\ NoRun /\ NoCanExecute /\ NoCross /\ NoAdapter /\ NoConfig

NextCross ==
    \/ \E x \in SampleValues : AppendSample(x)
    \/ \E s \in FixtureSeries : LoadFixture(s)
    \/ \E level \in CrossLevels : \E direction \in CrossDirections :
           CallDetectRsiCross(level, direction)

SpecCross == InitCross /\ [][NextCross]_vars

CrossCalled == cross_direction # ""

\* C9: detect_rsi_cross looks at the last two samples only: 'down' is true iff
\* prev > level and cur <= level, 'up' iff prev < level and cur >= level; it is false
\* with fewer than two samples and for any other direction. [40,38,36,34] crosses 35
\* down, [60,62,64,66] crosses 65 up, [40,41,42,43,44] does not cross 35 down
C9_CrossOnLastTwoSamples ==
    CrossCalled =>
        LET n == Len(rsi_series)
            expected ==
                IF n < 2 THEN FALSE
                ELSE LET prev == rsi_series[n - 1]
                         cur  == rsi_series[n]
                         defined == ~IsNaN(prev) /\ ~IsNaN(cur)
                     IN CASE cross_direction = "down" ->
                                defined /\ prev.n > cross_level * prev.d
                                        /\ ~(cur.n > cross_level * cur.d)
                          [] cross_direction = "up" ->
                                defined /\ prev.n < cross_level * prev.d
                                        /\ ~(cur.n < cross_level * cur.d)
                          [] OTHER -> FALSE
        IN /\ cross_result = expected
           /\ (rsi_series = <<Sample(40), Sample(38), Sample(36), Sample(34)>>
                 /\ cross_level = 35 /\ cross_direction = "down") => cross_result
           /\ (rsi_series = <<Sample(60), Sample(62), Sample(64), Sample(66)>>
                 /\ cross_level = 65 /\ cross_direction = "up") => cross_result
           /\ (rsi_series = <<Sample(40), Sample(41), Sample(42), Sample(43), Sample(44)>>
                 /\ cross_level = 35 /\ cross_direction = "down") => ~cross_result

\* the previous sample above the level and the current one exactly on it
C9_Witness ==
    /\ CrossCalled
    /\ rsi_series = <<Sample(64), Sample(36), Sample(35)>>
    /\ cross_level = 35 /\ cross_direction = "down"
    /\ cross_result

\* a <= b between two oscillator samples; false when either is NaN
SampleLe(a, b) == ~IsNaN(a) /\ ~IsNaN(b) /\ a.n * b.d <= b.n * a.d

OtherDirection(direction) == IF direction = "down" THEN "up" ELSE "down"

\* C19: on one series and level 'down' and 'up' are never both true, and on a
\* non-decreasing last pair (prev <= cur) 'down' is false, on a non-increasing one
\* (prev >= cur) 'up' is false
C19_CrossAntisymmetric ==
    (CrossCalled /\ Len(rsi_series) >= 2 /\ cross_direction \in {"down", "up"}) =>
        LET prev == rsi_series[Len(rsi_series) - 1]
            cur  == rsi_series[Len(rsi_series)]
        IN /\ cross_result =>
                 ~DetectRsiCross(rsi_series, cross_level, OtherDirection(cross_direction))
           /\ (cross_direction = "down" /\ SampleLe(prev, cur)) => ~cross_result
           /\ (cross_direction = "up" /\ SampleLe(cur, prev)) => ~cross_result

\* a rising pair that straddles the level: 'up' is true and 'down' is false
C19_Witness ==
    /\ CrossCalled
    /\ rsi_series = <<Sample(34), Sample(66)>>
    /\ cross_level = 65 /\ cross_direction = "up"
    /\ cross_result
    /\ ~DetectRsiCross(rsi_series, cross_level, "down")

\* a flat pair lying on the level: neither direction is true
C19_WitnessFlat ==
    /\ CrossCalled
    /\ rsi_series = <<Sample(35), Sample(35)>>
    /\ cross_level = 35 /\ cross_direction = "down"
    /\ ~cross_result
    /\ ~DetectRsiCross(rsi_series, cross_level, "up")

-----------------------------------------------------------------------------
(* The crossing detector bar by bar: the series grows by one sample per bar and the
   detector is asked about each prefix *)

MaxPrefixLen == 4      \* longest series fed sample by sample

\* the next bar's oscillator sample
FeedSample(x) ==
    /\ Len(rsi_series) < MaxPrefixLen
    /\ rsi_series' = Append(rsi_series, x)
    /\ NoCross_n
    /\ UNCHANGED <<strategy_vars, env_vars, run_vars, ce_vars, adapter_vars, config_vars>>

NextPrefix ==
    \/ \E x \in SampleValues : FeedSample(x)
    \/ \E level \in CrossLevels : \E direction \in CrossDirections :
           CallDetectRsiCross(level, direction)

SpecPrefix == InitCross /\ [][NextPrefix]_vars

\* the sample lies strictly beyond the level on the side the direction starts from /
\* ends at, or exactly on it
Before(x, level, direction) ==
    IF direction = "down" THEN Gt(x, level) ELSE Lt(x, level)
After(x, level, direction) ==
    IF direction = "down" THEN Lt(x, level) ELSE Gt(x, level)
OnLevel(x, level) == Ge(x, level) /\ Le(x, level)

\* samples 1..a strictly before the level, a+1..b exactly on it, b+1.. strictly after
PassesThrough(s, level, direction, a, b) ==
    /\ 1 <= a /\ a < b /\ b < Len(s)
    /\ \A k \in 1..a : Before(s[k], level, direction)
    /\ \A k \in (a + 1)..b : OnLevel(s[k], level)
    /\ \A k \in (b + 1)..Len(s) : After(s[k], level, direction)

\* the prefixes of the series on which the detector answers true
FiringPrefixes(s, level, direction) ==
    {k \in 1..Len(s) : DetectRsiCross(SubSeq(s, 1, k), level, direction)}

\* C23: on a series that is strictly above L, then exactly on L for one or more
\* samples, then strictly below L, 'down' is true on exactly one prefix, the one ending
\* at the first sample on L; symmetrically for 'up' on a series rising through L
C23_OneTriggerPerCrossing ==
    (CrossCalled /\ cross_direction \in {"down", "up"}) =>
        \A a \in 1..Len(rsi_series) : \A b \in 1..Len(rsi_series) :
            PassesThrough(rsi_series, cross_level, cross_direction, a, b) =>
                /\ FiringPrefixes(rsi_series, cross_level, cross_direction) = {a + 1}
                /\ ~cross_result

\* two samples on the level between one above and one below it
C23_Witness ==
    /\ CrossCalled
    /\ rsi_series = <<Sample(36), Sample(35), Sample(35), Sample(34)>>
    /\ cross_level = 35 /\ cross_direction = "down"
    /\ PassesThrough(rsi_series, 35, "down", 1, 3)
    /\ FiringPrefixes(rsi_series, 35, "down") = {2}

\* a series rising through 65 with one sample on the level
C23_WitnessUp ==
    /\ CrossCalled
    /\ rsi_series = <<Sample(64), Sample(64), Sample(65), Sample(66)>>
    /\ cross_level = 65 /\ cross_direction = "up"
    /\ FiringPrefixes(rsi_series, 65, "up") = {3}

-----------------------------------------------------------------------------
(* RSIScaleInStrategy: construction *)

\* `value or default` on a number, a list, a string
IntOr(v, d) == IF v = 0 THEN d ELSE v
SeqOr(v, d) == IF v = <<>> THEN d ELSE v
StrOr(v, d) == IF v = "" THEN d ELSE v

\* the fields __init__ reads from STRATEGY_SETTINGS, each through `or <default>`
RsiConfig(raw) ==
    [name               |-> StrOr(raw.STRATEGY_NAME, "rsi_scale_in"),
     rsi_period         |-> IntOr(raw.RSI_PERIOD, 6),
     long_entry_level   |-> IntOr(raw.LONG_ENTRY_LEVEL, 35),
     long_scale_levels  |-> SeqOr(raw.LONG_SCALE_LEVELS, <<30, 25, 20, 15>>),
     short_entry_level  |-> IntOr(raw.SHORT_ENTRY_LEVEL, 65),
     short_scale_levels |-> SeqOr(raw.SHORT_SCALE_LEVELS, <<70, 75, 80, 85>>),
     max_scale_ins      |-> IntOr(raw.MAX_SCALE_INS, 4),
     allowed_min_bars   |-> IntOr(raw.MINIMUM_BARS_FOR_STRATEGY_CALCULATION, 100)]

\* risk_manager.calculate_position_size(entry_price): the sizing collaborator is not
\* among the sources; a pure function of the coin's VOLUME_SIZE and the entry price
VolumeSize == 100
CalculatePositionSize(entry_price) == Num(VolumeSize \div entry_price.v)

-----------------------------------------------------------------------------
(* RSIScaleInStrategy: decision logic *)

Position(source, direction, orders) ==
    [source |-> source, direction |-> direction, orders |-> orders]

EntryOrders(pos) == Cardinality({i \in 1..Len(pos.orders) : pos.orders[i] = "ENTRY"})

\* index of the first position whose source is this strategy; 0 if none
FirstOwn(pos, name) ==
    LET S == {i \in 1..Len(pos) : pos[i].source = name}
    IN IF S = {} THEN 0 ELSE CHOOSE i \in S : \A j \in S : i <= j

GetPositionScaleCount(pos, name) ==
    IF pos = <<>> THEN 0
    ELSE LET i == FirstOwn(pos, name)
         IN IF i = 0 THEN 0
            ELSE LET scale_count == EntryOrders(pos[i]) - 1
                 IN IF scale_count > 0 THEN scale_count ELSE 0

\* mutant of ShouldClosePosition: each direction tested against its own entry crossing
ShouldClosePositionSameSide(pos, rsi, c) ==
    /\ pos # <<>>
    /\ Len(rsi) >= 2
    /\ \E i \in 1..Len(pos) :
          /\ pos[i].source = c.name
          /\ \/ pos[i].direction = "LONG" /\ DetectRsiCross(rsi, c.long_entry_level, "down")
             \/ pos[i].direction = "SHORT" /\ DetectRsiCross(rsi, c.short_entry_level, "up")

\* the loop returns True at the first own position whose opposite entry level is crossed
ShouldClosePosition(pos, rsi, c) ==
    /\ pos # <<>>
    /\ Len(rsi) >= 2
    /\ \E i \in 1..Len(pos) :
          /\ pos[i].source = c.name
          /\ \/ pos[i].direction = "LONG" /\ DetectRsiCross(rsi, c.short_entry_level, "up")
             \/ pos[i].direction = "SHORT" /\ DetectRsiCross(rsi, c.long_entry_level, "down")

InitialEntry(direction, entry_price, current_rsi, name) ==
    SignalEntry(direction, entry_price, CalculatePositionSize(entry_price), <<>>, <<>>, name,
                [rsi |-> current_rsi, scale_count |-> 0, entry_type |-> "initial"])

\* mutant of ScaleInEntry: the metadata carries the count before this scale-in
ScaleInEntryZeroBased(direction, entry_price, current_rsi, scale_count, name) ==
    LET base_volume == CalculatePositionSize(entry_price)
        multiplier  == Pow(2, scale_count + 1)
    IN SignalEntry(direction, entry_price, Num(base_volume.v * multiplier), <<>>, <<>>, name,
                   [rsi |-> current_rsi, scale_count |-> scale_count,
                    entry_type |-> "scale_in", multiplier |-> multiplier])

ScaleInEntry(direction, entry_price, current_rsi, scale_count, name) ==
    LET base_volume == CalculatePositionSize(entry_price)
        multiplier  == Pow(2, scale_count + 1)
    IN SignalEntry(direction, entry_price, Num(base_volume.v * multiplier), <<>>, <<>>, name,
                   [rsi |-> current_rsi, scale_count |-> scale_count + 1,
                    entry_type |-> "scale_in", multiplier |-> multiplier])

\* for pos in positions: the scale-in loop from index i; NO_SIGNAL when it runs out
RECURSIVE ScaleInLoop(_, _, _, _, _, _)
ScaleInLoop(pos, i, rsi, scale_count, entry_price, c) ==
    IF i > Len(pos) THEN SignalNoSignal(c.name)
    ELSE IF pos[i].source # c.name
    THEN ScaleInLoop(pos, i + 1, rsi, scale_count, entry_price, c)
    ELSE IF pos[i].direction = "LONG" /\ scale_count < Len(c.long_scale_levels)
    THEN IF DetectRsiCross(rsi, c.long_scale_levels[scale_count + 1], "down")
         THEN ScaleInEntry("LONG", entry_price, Last(rsi), scale_count, c.name)
         ELSE ScaleInLoop(pos, i + 1, rsi, scale_count, entry_price, c)
    ELSE IF pos[i].direction = "SHORT" /\ scale_count < Len(c.short_scale_levels)
    THEN IF DetectRsiCross(rsi, c.short_scale_levels[scale_count + 1], "up")
         THEN ScaleInEntry("SHORT", entry_price, Last(rsi), scale_count, c.name)
         ELSE ScaleInLoop(pos, i + 1, rsi, scale_count, entry_price, c)
    ELSE ScaleInLoop(pos, i + 1, rsi, scale_count, entry_price, c)

\* mutant of EnoughBars: the guard lets a window one bar short through
EnoughBarsOffByOne(n, allowed_min_bars) == ~(n + 1 < allowed_min_bars)

\* the guard `len(data_df) < self.allowed_min_bars` passed
EnoughBars(n, allowed_min_bars) == ~(n < allowed_min_bars)

\* mutant of WithinMaxScaleIns: one scale-in more than configured
WithinMaxScaleInsInclusive(scale_count, max_scale_ins) == scale_count <= max_scale_ins

\* the scale-in guard `scale_count < self.max_scale_ins`
WithinMaxScaleIns(scale_count, max_scale_ins) == scale_count < max_scale_ins

\* run, once the oscillator of a long enough window is computed and defined
Decide(c, closes, rsi, pos) ==
    LET current_rsi == Last(rsi)
        entry_price == Num(Last(closes))
    IN IF pos # <<>> /\ ShouldClosePosition(pos, rsi, c)
       THEN SignalClose(c.name, [rsi |-> current_rsi])
       ELSE LET scale_count == GetPositionScaleCount(pos, c.name)
            IN IF (pos = <<>> \/ scale_count = 0)
                  /\ DetectRsiCross(rsi, c.long_entry_level, "down")
               THEN InitialEntry("LONG", entry_price, current_rsi, c.name)
               ELSE IF (pos = <<>> \/ scale_count = 0)
                       /\ DetectRsiCross(rsi, c.short_entry_level, "up")
               THEN InitialEntry("SHORT", entry_price, current_rsi, c.name)
               ELSE IF pos # <<>> /\ WithinMaxScaleIns(scale_count, c.max_scale_ins)
               THEN ScaleInLoop(pos, 1, rsi, scale_count, entry_price, c)
               ELSE SignalNoSignal(c.name)

\* RSIScaleInStrategy.run
RsiRun(c, d, pos) ==
    IF ~Normalizable(d) THEN SignalNoSignal(c.name)
    ELSE IF ~EnoughBars(Len(Closes(d)), c.allowed_min_bars) THEN SignalNoSignal(c.name)
    ELSE IF Closes(d) = <<>> THEN SignalNoSignal(c.name)   \* rsi.iloc[-1] raises, caught
    ELSE LET rsi == CalculateRsi(Closes(d), c.rsi_period)
         IN IF IsNaN(Last(rsi)) THEN SignalNoSignal(c.name)
            ELSE Decide(c, Closes(d), rsi, pos)

\* the oscillator computation run reaches: calculate_rsi is called only on a normalised
\* window with the minimum number of bars
RsiInvoked(c, d) ==
    IF ~Normalizable(d) THEN <<>>
    ELSE IF ~EnoughBars(Len(Closes(d)), c.allowed_min_bars) THEN <<>>
    ELSE <<"calculate_rsi">>

-----------------------------------------------------------------------------
(* The RSI strategy in its environment: bars arrive, the executor edits the ledger *)

MaxBars == 4           \* longest window fed to RSIScaleInStrategy.run
FirstClose == 3        \* close of the window's first bar
MaxPositions == 2      \* most positions in a snapshot
MaxEntryOrders == 5    \* most ENTRY orders on one position
BarCloses == 1..5      \* close prices of the later bars

\* STRATEGY_SETTINGS as configured: the defaults (falsy values) except the minimum
\* number of bars; and the same with a two-level LONG ladder and three scale-ins at most
RawConfigs ==
    {[STRATEGY_NAME |-> "", RSI_PERIOD |-> 0, LONG_ENTRY_LEVEL |-> 0,
      LONG_SCALE_LEVELS |-> <<>>, SHORT_ENTRY_LEVEL |-> 0, SHORT_SCALE_LEVELS |-> <<>>,
      MAX_SCALE_INS |-> 0, MINIMUM_BARS_FOR_STRATEGY_CALCULATION |-> 4],
     [STRATEGY_NAME |-> "", RSI_PERIOD |-> 0, LONG_ENTRY_LEVEL |-> 0,
      LONG_SCALE_LEVELS |-> <<30, 25>>, SHORT_ENTRY_LEVEL |-> 0, SHORT_SCALE_LEVELS |-> <<>>,
      MAX_SCALE_INS |-> 3, MINIMUM_BARS_FOR_STRATEGY_CALCULATION |-> 4]}

Sources == {"rsi_scale_in", "other"}
Directions == {"LONG", "SHORT"}

\* RSIScaleInStrategy.__init__
RsiInit(raw) ==
    /\ conditions = <<>>
    /\ live_enabled = FALSE
    /\ dry_run = TRUE
    /\ max_risk_fraction = Num(2)
    /\ max_notional = None
    /\ allowed_symbols = None
    /\ cfg = RsiConfig(raw)

\* the executor opens a position (one ENTRY order); one position per source and
\* direction, and only this strategy's positions directions vary
OpenPosition(source, direction) ==
    /\ Len(positions) < MaxPositions
    /\ source = "other" => direction = "LONG"
    /\ \A i \in 1..Len(positions) :
          ~(positions[i].source = source /\ positions[i].direction = direction)
    /\ positions' = Append(positions, Position(source, direction, <<"ENTRY">>))
    /\ NoRun_n
    /\ UNCHANGED <<strategy_vars, data, ce_vars, cross_vars, adapter_vars, config_vars>>

\* the executor attaches one more ENTRY order to a position of this strategy
AppendEntryOrder(i) ==
    /\ i \in 1..Len(positions)
    /\ positions[i].source = cfg.name
    /\ EntryOrders(positions[i]) < MaxEntryOrders
    /\ positions' = [positions EXCEPT ![i].orders = Append(@, "ENTRY")]
    /\ NoRun_n
    /\ UNCHANGED <<strategy_vars, data, ce_vars, cross_vars, adapter_vars, config_vars>>

\* the executor closes a position: it leaves the snapshot
RemovePosition(i) ==
    /\ i \in 1..Len(positions)
    /\ positions' = SubSeq(positions, 1, i - 1) \o SubSeq(positions, i + 1, Len(positions))
    /\ NoRun_n
    /\ UNCHANGED <<strategy_vars, data, ce_vars, cross_vars, adapter_vars, config_vars>>

CallRsiRun ==
    /\ signal' = RsiRun(cfg, data, positions)
    /\ called' = "rsi_run"
    /\ invoked' = RsiInvoked(cfg, data)
    /\ UNCHANGED <<strategy_vars, env_vars, ce_vars, cross_vars, adapter_vars, config_vars>>

InitRsi ==
    /\ \E raw \in RawConfigs : RsiInit(raw)
    /\ data = [kind |-> "df", close |-> <<FirstClose>>]
    /\ positions = <<>>
    /\ NoRun /\ NoCanExecute /\ NoCross /\ NoAdapter /\ NoConfig

NextRsi ==
    \/ \E c \in BarCloses : PushBar(c, MaxBars)
    \/ LoadBadData
    \/ \E src \in Sources : \E dir \in Directions : OpenPosition(src, dir)
    \/ \E i \in 1..MaxPositions : AppendEntryOrder(i)
    \/ \E i \in 1..MaxPositions : RemovePosition(i)
    \/ CallRsiRun

SpecRsi == InitRsi /\ [][NextRsi]_vars

-----------------------------------------------------------------------------
(* Both run methods on the same input: a chain and the RSI settings side by side *)

NormalizePool == {MinBarsCondition(2), StubNone, StubRaise}

InitNormalize ==
    /\ \E raw \in RawConfigs : RsiInit(raw)
    /\ data \in {[kind |-> "df", close |-> <<>>], [kind |-> "matrix", close |-> <<>>]}
    /\ positions = <<>>
    /\ NoRun /\ NoCanExecute /\ NoCross /\ NoAdapter /\ NoConfig

NextNormalize ==
    \/ \E c \in NormalizePool : AddCondition(c)
    \/ \E c \in ChainCloses : PushBar(c, MaxBars)
    \/ LoadBadData
    \/ Run
    \/ CallRsiRun

SpecNormalize == InitNormalize /\ [][NextNormalize]_vars

\* C16: on an input that is neither a table nor a matrix of open/high/low/close and a
\* timestamp column, both run methods return NO_SIGNAL, and neither a condition is
\* evaluated nor the oscillator computed
C16_BadInputNoSignal ==
    (called # "" /\ data.kind \notin {"df", "matrix"})
    => /\ signal = SignalNoSignal(cfg.name)
       /\ invoked = <<>>

\* BaseStrategy.run with three conditions on an input that is not a window
C16_Witness ==
    /\ called = "run" /\ data = BadData
    /\ Len(conditions) = 3
    /\ signal.signal_type = "NO_SIGNAL" /\ invoked = <<>>

\* RSIScaleInStrategy.run on an input that is not a window
C16_WitnessRsi ==
    /\ called = "rsi_run" /\ data = BadData
    /\ signal.signal_type = "NO_SIGNAL" /\ invoked = <<>>

-----------------------------------------------------------------------------
(* Claims about RSIScaleInStrategy.run *)

RsiCalled == called = "rsi_run"

\* the oscillator of the current window
Osc == CalculateRsi(Closes(data), cfg.rsi_period)

OwnPositions == {i \in 1..Len(positions) : positions[i].source = cfg.name}

\* Flat: no open position whose source is this strategy
Flat == OwnPositions = {}

\* Scaling(direction, n): one position of this strategy, n = its ENTRY orders minus one
Scaling(direction, n) ==
    /\ Cardinality(OwnPositions) = 1
    /\ \A i \in OwnPositions : /\ positions[i].direction = direction
                               /\ EntryOrders(positions[i]) - 1 = n

IsInitialEntry(sig) == sig.signal_type = "ENTRY" /\ sig.metadata.entry_type = "initial"

\* C5: an initial ENTRY (entry_type initial, scale_count 0, base volume) comes only out
\* of the Flat state; no Scaling(direction, n) state, n = 0 included, produces one
C5_InitialEntryOnlyFromFlat ==
    (RsiCalled /\ IsInitialEntry(signal)) => Flat

Ladder(direction) ==
    IF direction = "LONG" THEN cfg.long_scale_levels ELSE cfg.short_scale_levels
CrossSide(direction) == IF direction = "LONG" THEN "down" ELSE "up"

\* C6: in Scaling(direction, n), n < max_scale_ins and n < ladder length, a crossing of
\* ladder[n] on the last two samples with no close condition yields an ENTRY in the same
\* direction with volume base_volume * 2^(n+1), for every such n, n = 0 included
C6_ScaleInDoubles ==
    \A dir \in Directions : \A n \in 0..MaxEntryOrders :
        (/\ RsiCalled /\ Normalizable(data)
         /\ EnoughBars(Len(Closes(data)), cfg.allowed_min_bars)
         /\ Scaling(dir, n)
         /\ n < cfg.max_scale_ins /\ n < Len(Ladder(dir))
         /\ DetectRsiCross(Osc, Ladder(dir)[n + 1], CrossSide(dir))
         /\ ~ShouldClosePosition(positions, Osc, cfg))
        => /\ signal.signal_type = "ENTRY"
           /\ signal.direction = dir
           /\ signal.volume
                = Num(CalculatePositionSize(Num(Last(Closes(data)))).v * Pow(2, n + 1))

\* a close crossing for some open position of this strategy, on the window's oscillator
CloseCrossing ==
    \E i \in OwnPositions :
        \/ /\ positions[i].direction = "LONG"
           /\ Len(Osc) >= 2
           /\ Lt(Osc[Len(Osc) - 1], cfg.short_entry_level)
           /\ Ge(Osc[Len(Osc)], cfg.short_entry_level)
        \/ /\ positions[i].direction = "SHORT"
           /\ Len(Osc) >= 2
           /\ Gt(Osc[Len(Osc) - 1], cfg.long_entry_level)
           /\ Le(Osc[Len(Osc)], cfg.long_entry_level)

C8_ShortWindowNoSignal ==
    (RsiCalled /\ Normalizable(data) /\ Len(Closes(data)) < cfg.allowed_min_bars)
    => signal = SignalNoSignal(cfg.name)

\* three bars, one short of the minimum, with an entry crossing in the Flat state
C8_Witness ==
    /\ RsiCalled /\ Normalizable(data)
    /\ Len(Closes(data)) = 3 /\ cfg.allowed_min_bars = 4
    /\ Flat
    /\ \/ DetectRsiCross(Osc, cfg.long_entry_level, "down")
       \/ DetectRsiCross(Osc, cfg.short_entry_level, "up")
    /\ signal.signal_type = "NO_SIGNAL"

-----------------------------------------------------------------------------
(* The bar-by-bar scenario: one engineered window, fed prefix by prefix *)

ScenarioBars == 150    \* bars of the window
CrossBar == 41         \* the bar at which the oscillator crosses 35 downward

\* STRATEGY_SETTINGS with nothing configured: every field takes its default
UnsetSettings ==
    [STRATEGY_NAME |-> "", RSI_PERIOD |-> 0, LONG_ENTRY_LEVEL |-> 0,
     LONG_SCALE_LEVELS |-> <<>>, SHORT_ENTRY_LEVEL |-> 0, SHORT_SCALE_LEVELS |-> <<>>,
     MAX_SCALE_INS |-> 0, MINIMUM_BARS_FOR_STRATEGY_CALCULATION |-> 0]

\* the minimum number of bars: not configured, or set to the crossing bar or one more
ScenarioMinBars == {0, CrossBar, CrossBar + 1}

\* close of bar i: flat, one step up on the bar before the crossing, then a drop that
\* the window keeps. The oscillator is undefined, then 100, then 1000/66 for good
ScenarioClose(i) == IF i < CrossBar - 1 THEN 50 ELSE IF i = CrossBar - 1 THEN 51 ELSE 47

\* current_data = df.iloc[:i+1]: the next bar of the window joins the prefix
PushScenarioBar == PushBar(ScenarioClose(Len(data.close) + 1), ScenarioBars)

InitScenario ==
    /\ \E m \in ScenarioMinBars :
          RsiInit([UnsetSettings EXCEPT !.MINIMUM_BARS_FOR_STRATEGY_CALCULATION = m])
    /\ data = [kind |-> "df", close |-> <<>>]
    /\ positions = <<>>
    /\ NoRun /\ NoCanExecute /\ NoCross /\ NoAdapter /\ NoConfig

NextScenario ==
    \/ PushScenarioBar
    \/ CallRsiRun

SpecScenario == InitScenario /\ [][NextScenario]_vars

IsInitialLong(sig) ==
    /\ sig.signal_type = "ENTRY" /\ sig.direction = "LONG"
    /\ sig.metadata.scale_count = 0

\* C13 as stated: under the default configuration the prefixes of the window yield
\* exactly one ENTRY LONG with scale_count 0, at the crossing bar
C13_OneEntryAtCrossBar ==
    (RsiCalled /\ cfg = RsiConfig(UnsetSettings))
    => (IsInitialLong(signal) <=> Len(Closes(data)) = CrossBar)

\* C13 amended: the prefix ending at the crossing bar yields the ENTRY LONG with
\* scale_count 0 only if it has at least allowed_min_bars bars; every other prefix, and
\* under the default minimum of 100 bars every prefix, yields NO_SIGNAL
C13_EntryOnlyWithEnoughBars ==
    RsiCalled =>
        LET n == Len(Closes(data))
        IN /\ (n = CrossBar /\ n >= cfg.allowed_min_bars)
                => signal = InitialEntry("LONG", Num(ScenarioClose(n)), Osc[n], cfg.name)
           /\ ~(n = CrossBar /\ n >= cfg.allowed_min_bars)
                => signal = SignalNoSignal(cfg.name)
           /\ cfg = RsiConfig(UnsetSettings) => signal = SignalNoSignal(cfg.name)

\* the default configuration at the crossing bar: 35 is crossed downward, nothing emitted
C13_Witness ==
    /\ RsiCalled /\ cfg = RsiConfig(UnsetSettings) /\ Flat
    /\ Len(Closes(data)) = CrossBar
    /\ DetectRsiCross(Osc, cfg.long_entry_level, "down")
    /\ signal.signal_type = "NO_SIGNAL"

\* C11: in Scaling(direction, n), n >= 1, with n >= max_scale_ins or n >= the length of
\* that direction's ladder, run never returns an ENTRY: only CLOSE or NO_SIGNAL
C11_NoEntryBeyondLadder ==
    \A dir \in Directions : \A n \in 1..MaxEntryOrders :
        (/\ RsiCalled
         /\ Scaling(dir, n)
         /\ (n >= cfg.max_scale_ins \/ n >= Len(Ladder(dir))))
        => signal.signal_type \in {"CLOSE", "NO_SIGNAL"}

\* three scale-ins done out of three allowed, and the fourth SHORT level crossed upward
C11_Witness ==
    /\ RsiCalled /\ Normalizable(data)
    /\ EnoughBars(Len(Closes(data)), cfg.allowed_min_bars)
    /\ Scaling("SHORT", 3) /\ cfg.max_scale_ins = 3
    /\ DetectRsiCross(Osc, cfg.short_scale_levels[4], "up")
    /\ signal.signal_type = "NO_SIGNAL"

\* two scale-ins done on a two-level LONG ladder, and the level 20 crossed downward
C11_WitnessLadder ==
    /\ RsiCalled /\ Normalizable(data)
    /\ EnoughBars(Len(Closes(data)), cfg.allowed_min_bars)
    /\ Scaling("LONG", 2) /\ Len(cfg.long_scale_levels) = 2 /\ cfg.max_scale_ins = 3
    /\ DetectRsiCross(Osc, 20, "down")
    /\ signal.signal_type = "NO_SIGNAL"

\* C12: a signal's direction and entry price are both null exactly when it is a
\* NO_SIGNAL; the CLOSE returned by run carries a direction and a price, as every ENTRY
C12_NullIffNoSignal ==
    RsiCalled =>
        ((signal.direction = "None" /\ IsNone(signal.price))
            <=> signal.signal_type = "NO_SIGNAL")

IsScaleIn(sig) == sig.signal_type = "ENTRY" /\ sig.metadata.entry_type = "scale_in"

\* C22 as stated: a scale-in ENTRY emitted from Scaling(direction, n) carries in its
\* metadata scale_count = n, the multiplier 2^(n+1) and the current oscillator value
C22_MetadataZeroBased ==
    \A dir \in Directions : \A n \in 0..MaxEntryOrders :
        (RsiCalled /\ Scaling(dir, n) /\ IsScaleIn(signal))
        => /\ signal.metadata.scale_count = n
           /\ signal.metadata.multiplier = Pow(2, n + 1)
           /\ signal.metadata.rsi = Last(Osc)

\* C22, amended: the metadata of a scale-in ENTRY emitted from Scaling(direction, n)
\* carries scale_count = n + 1, the number of scale-ins this one included, together
\* with the multiplier 2^(n+1), the current oscillator value and entry_type scale_in
C22_MetadataCountsThisScaleIn ==
    \A dir \in Directions : \A n \in 0..MaxEntryOrders :
        (RsiCalled /\ Scaling(dir, n) /\ IsScaleIn(signal))
        => /\ signal.metadata.scale_count = n + 1
           /\ signal.metadata.multiplier = Pow(2, n + 1)
           /\ signal.metadata.rsi = Last(Osc)
           /\ signal.direction = dir

\* the second scale-in of a LONG position: two ENTRY orders, the level 25 crossed
C22_Witness ==
    /\ RsiCalled /\ Scaling("LONG", 1) /\ IsScaleIn(signal)
    /\ signal.metadata.scale_count = 2 /\ signal.metadata.multiplier = 4
    /\ DetectRsiCross(Osc, 25, "down")

\* index of the first position of this strategy with the given direction; 0 if none
FirstOwnWith(direction) ==
    LET S == {i \in OwnPositions : positions[i].direction = direction}
    IN IF S = {} THEN 0 ELSE CHOOSE i \in S : \A j \in S : i <= j

\* C24: a scale-in ENTRY in direction D takes its ladder index n and its multiplier
\* 2^(n+1) from the ENTRY orders of the first position of this strategy with direction
\* D, also when a position of the other direction stands earlier in the snapshot
C24_ScaleInUsesOwnCount ==
    \A dir \in Directions :
        (RsiCalled /\ IsScaleIn(signal) /\ signal.direction = dir) =>
            /\ FirstOwnWith(dir) # 0
            /\ LET n == EntryOrders(positions[FirstOwnWith(dir)]) - 1
               IN /\ signal.metadata.multiplier = Pow(2, n + 1)
                  /\ n < Len(Ladder(dir))
                  /\ DetectRsiCross(Osc, Ladder(dir)[n + 1], CrossSide(dir))

\* what holds: the index and the multiplier come from the first position of this
\* strategy in the snapshot, whatever its direction
C24_ScaleInUsesFirstOwnCount ==
    \A dir \in Directions :
        (RsiCalled /\ IsScaleIn(signal) /\ signal.direction = dir) =>
            /\ FirstOwnWith(dir) # 0
            /\ LET n == GetPositionScaleCount(positions, cfg.name)
               IN /\ signal.metadata.multiplier = Pow(2, n + 1)
                  /\ DetectRsiCross(Osc, Ladder(dir)[n + 1], CrossSide(dir))

\* reached: a scale-in for a position whose own count differs from the one used
C24_ForeignCountUsed ==
    /\ RsiCalled /\ IsScaleIn(signal)
    /\ FirstOwnWith(signal.direction) # 0
    /\ signal.metadata.multiplier
          # Pow(2, EntryOrders(positions[FirstOwnWith(signal.direction)]))

\* the current or the previous oscillator sample of the window is undefined
UndefinedSample ==
    /\ Closes(data) # <<>>
    /\ \/ IsNaN(Osc[Len(Osc)])
       \/ Len(Osc) >= 2 /\ IsNaN(Osc[Len(Osc) - 1])

\* C25: when the current oscillator sample or the previous one is undefined, run
\* returns NO_SIGNAL whatever the positions snapshot is
C25_UndefinedSampleNoSignal ==
    (RsiCalled /\ Normalizable(data) /\ UndefinedSample)
    => signal = SignalNoSignal(cfg.name)

\* enough bars, the previous sample undefined, the current one defined and at or
\* below the long entry level, with and without a position of this strategy
C25_Witness ==
    /\ RsiCalled /\ Normalizable(data)
    /\ EnoughBars(Len(Closes(data)), cfg.allowed_min_bars)
    /\ IsNaN(Osc[Len(Osc) - 1]) /\ Le(Osc[Len(Osc)], cfg.long_entry_level)
    /\ ~Flat
    /\ signal.signal_type = "NO_SIGNAL"

\* the same in the Flat state, and with an undefined current sample on a full window
C25_WitnessFlat ==
    /\ RsiCalled /\ Normalizable(data)
    /\ EnoughBars(Len(Closes(data)), cfg.allowed_min_bars)
    /\ IsNaN(Osc[Len(Osc) - 1]) /\ Ge(Osc[Len(Osc)], cfg.short_entry_level)
    /\ Flat
    /\ signal.signal_type = "NO_SIGNAL"

C25_WitnessCurrent ==
    /\ RsiCalled /\ Normalizable(data)
    /\ EnoughBars(Len(Closes(data)), cfg.allowed_min_bars)
    /\ IsNaN(Osc[Len(Osc)])
    /\ ~Flat
    /\ signal.signal_type = "NO_SIGNAL"

Opposite(direction) == IF direction = "LONG" THEN "SHORT" ELSE "LONG"

OwnWith(direction) == {i \in OwnPositions : positions[i].direction = direction}

\* the entry crossing of a direction on the last two samples of the window
EntryCrossing(direction) ==
    DetectRsiCross(Osc, IF direction = "LONG" THEN cfg.long_entry_level
                        ELSE cfg.short_entry_level, CrossSide(direction))

\* C27 as stated: while the snapshot holds a position of this strategy with direction D,
\* run never returns an ENTRY in the opposite direction
C27_NoOppositeEntry ==
    \A dir \in Directions :
        (RsiCalled /\ OwnWith(dir) # {})
        => ~(signal.signal_type = "ENTRY" /\ signal.direction = Opposite(dir))

\* C27: while the snapshot holds a position of this strategy with direction D and none
\* with the opposite direction, run never returns an ENTRY in the opposite direction,
\* for any scale count and any last two samples; on the opposite entry crossing it
\* returns CLOSE
C27_NoOppositeEntryOneSided ==
    \A dir \in Directions :
        (RsiCalled /\ OwnWith(dir) # {} /\ OwnWith(Opposite(dir)) = {})
        => /\ ~(signal.signal_type = "ENTRY" /\ signal.direction = Opposite(dir))
           /\ (/\ Normalizable(data)
               /\ EnoughBars(Len(Closes(data)), cfg.allowed_min_bars)
               /\ ~IsNaN(Last(Osc))
               /\ EntryCrossing(Opposite(dir))) => signal.signal_type = "CLOSE"

\* a LONG position with a scale-in on it, the short entry level crossed upwards: CLOSE
C27_Witness ==
    /\ RsiCalled /\ OwnWith("LONG") # {} /\ OwnWith("SHORT") = {}
    /\ \E i \in OwnWith("LONG") : EntryOrders(positions[i]) >= 2
    /\ Normalizable(data) /\ EnoughBars(Len(Closes(data)), cfg.allowed_min_bars)
    /\ EntryCrossing("SHORT")
    /\ signal.signal_type = "CLOSE"

\* the same from a SHORT position
C27_WitnessShort ==
    /\ RsiCalled /\ OwnWith("SHORT") # {} /\ OwnWith("LONG") = {}
    /\ Normalizable(data) /\ EnoughBars(Len(Closes(data)), cfg.allowed_min_bars)
    /\ EntryCrossing("LONG")
    /\ signal.signal_type = "CLOSE"

\* a position of each direction in the snapshot and an ENTRY returned
C27_EntryBesideOpposite ==
    /\ RsiCalled /\ OwnWith("LONG") # {} /\ OwnWith("SHORT") # {}
    /\ signal.signal_type = "ENTRY"

-----------------------------------------------------------------------------
(* Both run methods as seen by their caller: the executor's ledger and the strategy's
   settings before and after a call *)

FramePool == {MinBarsCondition(2), StubRaise}

NextFrame ==
    \/ \E c \in FramePool : AddCondition(c)
    \/ \E c \in ChainCloses : PushBar(c, MaxBars)
    \/ LoadBadData
    \/ \E src \in Sources : \E dir \in Directions : OpenPosition(src, dir)
    \/ Run
    \/ CallRsiRun

SpecFrame == InitNormalize /\ [][NextFrame]_vars

\* C26: a call of RSIScaleInStrategy.run or of BaseStrategy.run, whatever it returns
\* (NO_SIGNAL, ENTRY, CLOSE, or NO_SIGNAL after an internal fault), leaves the positions
\* list and the orders of every position, the thresholds, ladders, max_scale_ins and
\* minimum bars, the condition list and the live flags as they were
C26_RunReadsOnly ==
    [][ called' \in {"run", "rsi_run"}
          => /\ positions' = positions
             /\ cfg' = cfg
             /\ conditions' = conditions
             /\ <<live_enabled, dry_run, max_risk_fraction, max_notional>>'
                   = <<live_enabled, dry_run, max_risk_fraction, max_notional>>
             /\ signal' = IF called' = "run"
                          THEN BaseRun(cfg.name, conditions, data, positions, live_enabled,
                                       dry_run, max_risk_fraction, max_notional).signal
                          ELSE RsiRun(cfg, data, positions) ]_vars

\* BaseStrategy.run returned an ENTRY with two positions in the ledger
C26_Witness ==
    /\ called = "run" /\ Len(positions) = 2
    /\ conditions # <<>>
    /\ signal.signal_type = "ENTRY"

\* BaseStrategy.run stopped on a raising condition with a position in the ledger
C26_WitnessFault ==
    /\ called = "run" /\ positions # <<>>
    /\ invoked # <<>> /\ Last(invoked) = StubRaise
    /\ signal.signal_type = "NO_SIGNAL"

\* RSIScaleInStrategy.run returned CLOSE, and returned ENTRY
C26_WitnessClose ==
    /\ called = "rsi_run" /\ positions # <<>> /\ signal.signal_type = "CLOSE"
C26_WitnessRsiEntry ==
    /\ called = "rsi_run" /\ positions # <<>> /\ signal.signal_type = "ENTRY"

-----------------------------------------------------------------------------
(* RSIScaleInStrategy.run in a closed loop: every bar the strategy is run on the window
   so far and on the executor's snapshot, and the executor acts on the signal before
   the next bar *)

MaxLoopBars == 6       \* longest window of the loop
LoopCloses == 1..4     \* close prices of the loop's bars

\* STRATEGY_SETTINGS of the loop, two bars required: the defaults; one scale-in at
\* most; and a LONG ladder of one level
LoopConfigs ==
    {[STRATEGY_NAME |-> "", RSI_PERIOD |-> 0, LONG_ENTRY_LEVEL |-> 0,
      LONG_SCALE_LEVELS |-> <<>>, SHORT_ENTRY_LEVEL |-> 0, SHORT_SCALE_LEVELS |-> <<>>,
      MAX_SCALE_INS |-> 0, MINIMUM_BARS_FOR_STRATEGY_CALCULATION |-> 2],
     [STRATEGY_NAME |-> "", RSI_PERIOD |-> 0, LONG_ENTRY_LEVEL |-> 0,
      LONG_SCALE_LEVELS |-> <<>>, SHORT_ENTRY_LEVEL |-> 0, SHORT_SCALE_LEVELS |-> <<>>,
      MAX_SCALE_INS |-> 1, MINIMUM_BARS_FOR_STRATEGY_CALCULATION |-> 2],
     [STRATEGY_NAME |-> "", RSI_PERIOD |-> 0, LONG_ENTRY_LEVEL |-> 0,
      LONG_SCALE_LEVELS |-> <<30>>, SHORT_ENTRY_LEVEL |-> 0, SHORT_SCALE_LEVELS |-> <<>>,
      MAX_SCALE_INS |-> 0, MINIMUM_BARS_FOR_STRATEGY_CALCULATION |-> 2]}

\* the executor: a position with one ENTRY order on an ENTRY from Flat, one more ENTRY
\* order on that position on every further ENTRY, the position removed on CLOSE
Executor(pos, sig, name) ==
    LET i == FirstOwn(pos, name)
    IN IF sig.signal_type = "ENTRY"
       THEN IF i = 0 THEN Append(pos, Position(name, sig.direction, <<"ENTRY">>))
            ELSE [pos EXCEPT ![i].orders = Append(@, "ENTRY")]
       ELSE IF sig.signal_type = "CLOSE" /\ i # 0
       THEN SubSeq(pos, 1, i - 1) \o SubSeq(pos, i + 1, Len(pos))
       ELSE pos

\* one turn of the loop: the bar arrives, run is called, the executor acts
LoopBar(c) ==
    /\ Len(data.close) < MaxLoopBars
    /\ LET d == [data EXCEPT !.close = Append(@, c)]
           sig == RsiRun(cfg, d, positions)
       IN /\ data' = d
          /\ signal' = sig
          /\ invoked' = RsiInvoked(cfg, d)
          /\ positions' = Executor(positions, sig, cfg.name)
    /\ called' = "rsi_run"
    /\ UNCHANGED <<strategy_vars, ce_vars, cross_vars, adapter_vars, config_vars>>

InitLoop ==
    /\ \E raw \in LoopConfigs : RsiInit(raw)
    /\ data = [kind |-> "df", close |-> <<>>]
    /\ positions = <<>>
    /\ NoRun /\ NoCanExecute /\ NoCross /\ NoAdapter /\ NoConfig

NextLoop == \E c \in LoopCloses : LoopBar(c)

SpecLoop == InitLoop /\ [][NextLoop]_vars

Min(a, b) == IF a < b THEN a ELSE b

\* most ENTRY orders a position of the given direction may carry
EntryOrderCap(direction) == 1 + Min(cfg.max_scale_ins, Len(Ladder(direction)))

\* C28: in the closed loop the ENTRY orders of the position never exceed
\* 1 + min(max_scale_ins, ladder length), 5 with the default configuration, although an
\* initial ENTRY can be emitted again while the position has a single ENTRY order
C28_EntryOrdersCapped ==
    /\ Len(positions) <= 1
    /\ \A i \in 1..Len(positions) :
          /\ positions[i].source = cfg.name
          /\ EntryOrders(positions[i]) <= EntryOrderCap(positions[i].direction)
          /\ EntryOrders(positions[i]) <= MaxEntryOrders

\* the cap is reached and the next ladder level is crossed: no further ENTRY
C28_Witness ==
    /\ RsiCalled /\ Len(positions) = 1
    /\ EntryOrders(positions[1]) = EntryOrderCap(positions[1].direction)
    /\ Len(Ladder(positions[1].direction)) >= EntryOrders(positions[1])
    /\ DetectRsiCross(Osc, Ladder(positions[1].direction)[EntryOrders(positions[1])],
                      CrossSide(positions[1].direction))
    /\ signal.signal_type = "NO_SIGNAL"

\* the initial ENTRY emitted again on a position with a single ENTRY order: the
\* executor has appended the second
C28_WitnessReEmitted ==
    /\ RsiCalled /\ Len(positions) = 1
    /\ IsInitialEntry(signal) /\ EntryOrders(positions[1]) = 2

-----------------------------------------------------------------------------
(* RSIScaleInStrategy.__init__ on a configuration: ConfigManager.get_setting and the
   `or <default>` of every field *)

SettingKeys ==
    {"STRATEGY_NAME", "RSI_PERIOD", "LONG_ENTRY_LEVEL", "LONG_SCALE_LEVELS",
     "SHORT_ENTRY_LEVEL", "SHORT_SCALE_LEVELS", "MAX_SCALE_INS",
     "MINIMUM_BARS_FOR_STRATEGY_CALCULATION"}

\* every key configured with the falsy value of its type
FalsySettings ==
    [STRATEGY_NAME |-> "", RSI_PERIOD |-> 0, LONG_ENTRY_LEVEL |-> 0,
     LONG_SCALE_LEVELS |-> <<>>, SHORT_ENTRY_LEVEL |-> 0, SHORT_SCALE_LEVELS |-> <<>>,
     MAX_SCALE_INS |-> 0, MINIMUM_BARS_FOR_STRATEGY_CALCULATION |-> 0]

\* every key configured with a value of its own
CustomSettings ==
    [STRATEGY_NAME |-> "custom", RSI_PERIOD |-> 14, LONG_ENTRY_LEVEL |-> 30,
     LONG_SCALE_LEVELS |-> <<28, 22>>, SHORT_ENTRY_LEVEL |-> 70,
     SHORT_SCALE_LEVELS |-> <<72, 78>>, MAX_SCALE_INS |-> 2,
     MINIMUM_BARS_FOR_STRATEGY_CALCULATION |-> 50]

\* ConfigManager.get_setting("STRATEGY_SETTINGS", key): the value, or KeyError
GetSettingRaises(st, key) == key \notin st.present

\* mutant of Construct: an absent key reads as None and falls back to the default
ConstructAbsentAsDefault(st) ==
    [raised |-> "", done |-> TRUE, strategy |-> RsiConfig(st.value)]

\* RSIScaleInStrategy(coin): the first get_setting that raises ends the constructor
Construct(st) ==
    IF \E key \in SettingKeys : GetSettingRaises(st, key)
    THEN [raised |-> "KeyError", done |-> TRUE, strategy |-> <<>>]
    ELSE [raised |-> "", done |-> TRUE, strategy |-> RsiConfig(st.value)]

\* config.yml sets a key of STRATEGY_SETTINGS
SetSetting(key, from) ==
    /\ settings' = [present |-> settings.present \cup {key},
                    value |-> [settings.value EXCEPT ![key] = from[key]]]
    /\ built' = NoBuilt
    /\ UNCHANGED <<strategy_vars, env_vars, run_vars, ce_vars, cross_vars, adapter_vars>>

\* config.yml drops a key of STRATEGY_SETTINGS
RemoveSetting(key) ==
    /\ key \in settings.present
    /\ settings' = [present |-> settings.present \ {key},
                    value |-> [settings.value EXCEPT ![key] = FalsySettings[key]]]
    /\ built' = NoBuilt
    /\ UNCHANGED <<strategy_vars, env_vars, run_vars, ce_vars, cross_vars, adapter_vars>>

CallConstruct ==
    /\ built' = Construct(settings)
    /\ UNCHANGED <<settings, strategy_vars, env_vars, run_vars, ce_vars, cross_vars,
                   adapter_vars>>

InitConfig ==
    /\ \E raw \in RawConfigs : RsiInit(raw)
    /\ data = [kind |-> "df", close |-> <<>>]
    /\ positions = <<>>
    /\ NoRun /\ NoCanExecute /\ NoCross /\ NoAdapter
    /\ settings = [present |-> SettingKeys, value |-> FalsySettings]
    /\ built = NoBuilt

NextConfig ==
    \/ \E key \in SettingKeys : \E from \in {FalsySettings, CustomSettings} :
          SetSetting(key, from)
    \/ \E key \in SettingKeys : RemoveSetting(key)
    \/ CallConstruct

SpecConfig == InitConfig /\ [][NextConfig]_vars

Configured(key) == key \in settings.present

\* C30: the constructor replaces every falsy configured value by the built-in default
\* (MAX_SCALE_INS 0 gives 4, an empty ladder the four-level ladder, entry levels and
\* period 0 give 35, 65 and 6, no minimum of bars gives 100, no name rsi_scale_in),
\* keeps every other configured value, and raises KeyError exactly when a key is
\* absent from the configuration
C30_FalsyReplacedAbsentRaises ==
    built.done =>
        /\ built.raised = "KeyError" <=> \E key \in SettingKeys : ~Configured(key)
        /\ built.raised \in {"", "KeyError"}
        /\ built.raised = "" =>
              LET v == settings.value
                  s == built.strategy
              IN /\ s.max_scale_ins = (IF v.MAX_SCALE_INS = 0 THEN 4 ELSE v.MAX_SCALE_INS)
                 /\ s.long_scale_levels = (IF v.LONG_SCALE_LEVELS = <<>>
                                           THEN <<30, 25, 20, 15>> ELSE v.LONG_SCALE_LEVELS)
                 /\ s.short_scale_levels = (IF v.SHORT_SCALE_LEVELS = <<>>
                                            THEN <<70, 75, 80, 85>> ELSE v.SHORT_SCALE_LEVELS)
                 /\ s.long_entry_level = (IF v.LONG_ENTRY_LEVEL = 0 THEN 35
                                          ELSE v.LONG_ENTRY_LEVEL)
                 /\ s.short_entry_level = (IF v.SHORT_ENTRY_LEVEL = 0 THEN 65
                                           ELSE v.SHORT_ENTRY_LEVEL)
                 /\ s.rsi_period = (IF v.RSI_PERIOD = 0 THEN 6 ELSE v.RSI_PERIOD)
                 /\ s.allowed_min_bars = (IF v.MINIMUM_BARS_FOR_STRATEGY_CALCULATION = 0
                                          THEN 100
                                          ELSE v.MINIMUM_BARS_FOR_STRATEGY_CALCULATION)
                 /\ s.name = (IF v.STRATEGY_NAME = "" THEN "rsi_scale_in"
                              ELSE v.STRATEGY_NAME)

\* MAX_SCALE_INS 0, an empty LONG ladder and period 0 beside a configured SHORT side:
\* the strategy is built with 4, the default ladder and 6
C30_Witness ==
    /\ built.done /\ built.raised = ""
    /\ settings.value.MAX_SCALE_INS = 0 /\ built.strategy.max_scale_ins = 4
    /\ settings.value.LONG_SCALE_LEVELS = <<>>
    /\ built.strategy.long_scale_levels = <<30, 25, 20, 15>>
    /\ settings.value.RSI_PERIOD = 0 /\ built.strategy.rsi_period = 6
    /\ settings.value.LONG_ENTRY_LEVEL = 0 /\ built.strategy.long_entry_level = 35
    /\ settings.value.SHORT_ENTRY_LEVEL = 70 /\ built.strategy.short_entry_level = 70
    /\ built.strategy.short_scale_levels = <<72, 78>>

\* only MAX_SCALE_INS is absent: KeyError out of the constructor
C30_WitnessAbsent ==
    /\ built.done /\ built.raised = "KeyError"
    /\ settings.present = SettingKeys \ {"MAX_SCALE_INS"}

-----------------------------------------------------------------------------
(* strategy_loader.function_to_class_adapter *)

\* A wrapped function: the argument counts its signature accepts ("data": one,
\* "three": three, "both": three with the last two defaulted) and what its body does
\* when entered with three arguments and with one
Arities == {"data", "three", "both"}
BodyOutcomes == {"return", "TypeError", "ValueError"}
WrappedFunction(arity, on_three, on_data) ==
    [arity |-> arity, on_three |-> on_three, on_data |-> on_data]
DataSlices == {"X", "Y", "Z"}

AcceptsThree(f) == f.arity \in {"three", "both"}
AcceptsData(f)  == f.arity \in {"data", "both"}

\* func(data_slice, [], None): binding fails with TypeError before the body is entered
\* when the signature does not take three arguments
CallThree(f, d) ==
    IF ~AcceptsThree(f)
    THEN [raised |-> "TypeError", value |-> <<>>, entered |-> <<>>]
    ELSE [raised |-> IF f.on_three = "return" THEN "" ELSE f.on_three,
          value |-> IF f.on_three = "return" THEN <<d, "[]", "None">> ELSE <<>>,
          entered |-> << <<d, "[]", "None">> >>]

\* func(data_slice)
CallData(f, d) ==
    IF ~AcceptsData(f)
    THEN [raised |-> "TypeError", value |-> <<>>, entered |-> <<>>]
    ELSE [raised |-> IF f.on_data = "return" THEN "" ELSE f.on_data,
          value |-> IF f.on_data = "return" THEN <<d>> ELSE <<>>,
          entered |-> << <<d>> >>]

\* FuncStrategy.find_entry_point: try func(data_slice, [], None); on TypeError,
\* func(data_slice)
FindEntryPoint(f, d) ==
    LET first == CallThree(f, d)
    IN IF first.raised = "TypeError"
       THEN LET second == CallData(f, d)
            IN [raised |-> second.raised, value |-> second.value,
                entered |-> first.entered \o second.entered]
       ELSE first

\* Strategy = function_to_class_adapter(f); s = Strategy()
WrapFunction(f) ==
    /\ fe_func' = f
    /\ fe_data' = "" /\ fe_calls' = <<>> /\ fe_result' = NoOutcome
    /\ UNCHANGED <<strategy_vars, env_vars, run_vars, ce_vars, cross_vars, config_vars>>

\* s.find_entry_point(d)
CallFindEntryPoint(d) ==
    /\ fe_func # NoFunction
    /\ fe_data' = d
    /\ LET r == FindEntryPoint(fe_func, d)
       IN /\ fe_calls' = r.entered
          /\ fe_result' = [raised |-> r.raised, value |-> r.value]
    /\ UNCHANGED <<fe_func, strategy_vars, env_vars, run_vars, ce_vars, cross_vars,
                   config_vars>>

InitAdapter ==
    /\ BaseInit("adapter")
    /\ data = [kind |-> "df", close |-> <<>>]
    /\ positions = <<>>
    /\ NoRun /\ NoCanExecute /\ NoCross /\ NoAdapter /\ NoConfig

NextAdapter ==
    \/ \E a \in Arities : \E t \in BodyOutcomes : \E o \in BodyOutcomes :
          WrapFunction(WrappedFunction(a, t, o))
    \/ \E d \in DataSlices : CallFindEntryPoint(d)

SpecAdapter == InitAdapter /\ [][NextAdapter]_vars

FeCalled == fe_data # ""

\* C21: one find_entry_point(data) call enters the wrapped function exactly once, with
\* (data, [], None) when the function accepts three arguments and with (data) alone
\* otherwise, and gives back what that call returned or raised, a three-argument
\* function whose body raises TypeError included
C21_WrappedCalledOnce ==
    FeCalled =>
        LET expected == IF AcceptsThree(fe_func) THEN CallThree(fe_func, fe_data)
                                                 ELSE CallData(fe_func, fe_data)
        IN /\ Len(fe_calls) = 1
           /\ fe_calls = expected.entered
           /\ fe_result = [raised |-> expected.raised, value |-> expected.value]

\* reached: a function taking three arguments, the last two optional, whose body raises
\* TypeError on the three-argument call is entered a second time with the data alone
C21_EnteredTwice ==
    /\ FeCalled
    /\ fe_func = WrappedFunction("both", "TypeError", "return")
    /\ fe_calls = << <<fe_data, "[]", "None">>, <<fe_data>> >>
    /\ fe_result = [raised |-> "", value |-> <<fe_data>>]

\* what holds: the body is entered with (data, [], None) first whenever the signature
\* takes three arguments, and a second time with (data) only after a TypeError
C21_FallbackOnlyAfterTypeError ==
    FeCalled =>
        /\ AcceptsThree(fe_func) => fe_calls[1] = <<fe_data, "[]", "None">>
        /\ Len(fe_calls) = 2 => fe_func.on_three = "TypeError"
        /\ (AcceptsThree(fe_func) /\ fe_func.on_three # "TypeError")
              => C21_WrappedCalledOnce
        /\ ~AcceptsThree(fe_func) => C21_WrappedCalledOnce

=============================================================================
